---- MODULE Spec2Model ----
(***************************************************************************)
(* Profile dashboard: the aggregation of a user's transaction log          *)
(* (GraphQLService, User), the profile load (ProfileController) and the    *)
(* chart geometry (ProfileView.renderProjectPieChart,                      *)
(* SVGUtils.calculateTimelinePath).                                        *)
(*                                                                         *)
(* Conventions.  A JavaScript string that the code takes apart (a path) is *)
(* a sequence of tokens: "/" and the segment names.  A JavaScript object   *)
(* used as a map is the sequence of its own entries [key, value] in the    *)
(* order Object.entries lists them.  An optional result is <<>> (not       *)
(* there) or <<v>>.                                                        *)
(* A JavaScript number that can come out of a division is a record         *)
(* [kind, num, den]: kind "num" is the rational num/den, the other kinds   *)
(* are NaN, Infinity and -Infinity.                                        *)
(***************************************************************************)
EXTENDS Integers, Sequences, FiniteSets, TLC

VARIABLES
    \* SpecAgg: a transaction list and the results of the aggregator's methods
    txs, totalXP, xpByPath, xpTimeline, level,
    \* SpecProfile: a query result and what is built from it
    response, profile, legacy, user,
    \* Spec: the running application
    booted, refreshed, token, view, loads, timers, logins, stale,
    \* SpecPie: the argument of renderProjectPieChart and what it draws
    pieContainer, pieInput, scene,
    \* SpecTimeline: the argument of calculateTimelinePath and its result
    xpData, pathData,
    \* SpecCharts: the arguments of the bar builders and what they draw
    audit, auditChart, progress, passFailRatio, passFailChart,
    passRate, progressChart,
    \* SpecColor: the arguments of darkenColor and its result
    color, percent, darkened,
    \* SpecRerender: the children of #xp-pie-chart, the number of renders
    \* made into it, and the paths successive calculateTimelinePath calls gave
    pieBox, renders, pathRuns,
    \* SpecQuery: the stored token, what the network answers, and the run of
    \* GraphQLService.query
    qToken, qNet, qRun,
    \* SpecDistribution: the argument of createProjectDistribution and the
    \* categories it draws
    distInput, distribution

aggVars == <<txs, totalXP, xpByPath, xpTimeline, level>>
profVars == <<response, profile, legacy, user>>
appVars == <<booted, refreshed, token, view, loads, timers, logins, stale>>
pieVars == <<pieContainer, pieInput, scene>>
timelineVars == <<xpData, pathData>>
chartVars == <<audit, auditChart, progress, passFailRatio, passFailChart,
               passRate, progressChart>>
colorVars == <<color, percent, darkened>>
rerenderVars == <<pieBox, renders, pathRuns>>
queryVars == <<qToken, qNet, qRun>>
distVars == <<distInput, distribution>>
vars == <<aggVars, profVars, appVars, pieVars, timelineVars, chartVars,
          colorVars, rerenderVars, queryVars, distVars>>

\* what the actions of one specification leave alone
exceptAgg ==
    <<profVars, appVars, pieVars, timelineVars, chartVars, colorVars,
      rerenderVars, queryVars, distVars>>
exceptProfile ==
    <<aggVars, appVars, pieVars, timelineVars, chartVars, colorVars,
      rerenderVars, queryVars, distVars>>
exceptApp ==
    <<aggVars, profVars, pieVars, timelineVars, chartVars, colorVars,
      rerenderVars, queryVars, distVars>>
exceptPie ==
    <<aggVars, profVars, appVars, timelineVars, chartVars, colorVars,
      rerenderVars, queryVars, distVars>>
exceptTimeline ==
    <<aggVars, profVars, appVars, pieVars, chartVars, colorVars,
      rerenderVars, queryVars, distVars>>
exceptCharts ==
    <<aggVars, profVars, appVars, pieVars, timelineVars, colorVars,
      rerenderVars, queryVars, distVars>>
exceptRerender ==
    <<aggVars, profVars, appVars, chartVars, colorVars, queryVars, distVars>>
exceptQuery ==
    <<aggVars, profVars, appVars, pieVars, timelineVars, chartVars,
      colorVars, rerenderVars, distVars>>
exceptDistribution ==
    <<aggVars, profVars, appVars, pieVars, timelineVars, chartVars,
      colorVars, rerenderVars, queryVars>>
exceptColor ==
    <<aggVars, profVars, appVars, pieVars, timelineVars, chartVars,
      rerenderVars, queryVars, distVars>>

----------------------------------------------------------------------------
(* Bounds and input domains *)

MaxTx == 2

\* the array-index keys told apart from other keys: '0' .. '20'
MaxIndexKey == 20

\* an absent property (undefined); no string of the domain is this sequence
Undefined == <<"undefined">>
EmptyString == <<>>
UnknownPath == <<"Unknown">>
PathA == <<"/", "a">>
\* paths that name a member of Object.prototype, and an array index
ConstructorPath == <<"constructor">>
ProtoPath == <<"__proto__">>
IndexPath == <<"2">>

TxTypes == {"xp", "level", "up"}
TxAmounts == {0, 1, 2}
TxPaths == {Undefined, EmptyString, UnknownPath, PathA}
\* xp transactions whose paths meet Object.prototype and the key order
MaxKeyTx == 2
KeyPaths == {PathA, ConstructorPath, ProtoPath, IndexPath}
KeyAmounts == {1, 2}
TxDates == {1}
TxEvents == {20}

Transactions(types, amounts, paths) ==
    [type : types, amount : amounts, createdAt : TxDates, path : paths,
     originEventId : TxEvents]

MaxProfileTx == 2
MaxLoads == 2
MaxLogins == 1

ProfileTxTypes == {"xp", "level"}
ProfileTxPaths == {PathA}
ProfileTxDates == {1, 2}

ProfileTransactions ==
    [type : ProfileTxTypes, amount : TxAmounts, createdAt : ProfileTxDates,
     path : ProfileTxPaths, originEventId : TxEvents]

\* transactions(order_by: {createdAt: desc}): the rows as the profile query
\* asks for them, the later ones first
OrderedByCreatedAtDesc(rows) ==
    \A i, j \in 1..Len(rows) : i < j => rows[i].createdAt >= rows[j].createdAt

Collections == {"transactions", "audits", "xps", "progressesByPath"}

\* the collections a user record may carry (GraphQL query, lines 122-149)
AuditLists == {<<>>, <<[grade |-> 1, auditedAt |-> 1]>>}
XpLists ==
    {<<>>, <<[amount |-> 2, originEventId |-> 20, path |-> PathA]>>,
     <<[amount |-> 2, originEventId |-> 20, path |-> ProtoPath]>>,
     <<[amount |-> 2, originEventId |-> 20, path |-> PathA],
       [amount |-> 1, originEventId |-> 20, path |-> IndexPath]>>}
ProgressLists == {<<>>, <<[succeeded |-> TRUE, count |-> 1, path |-> PathA]>>}

SeqsUpTo(S, n) == UNION {[1..k -> S] : k \in 0..n}

----------------------------------------------------------------------------
(* JavaScript helpers *)

\* truthiness of a string-or-undefined value
Truthy(str) == str # Undefined /\ str # EmptyString

\* Array.prototype.filter is SelectSeq throughout

\* the position of the own entry of an object for a key (the object held
\* as its entries in Object.entries order), or 0 when it has none
OwnIndex(acc, key) ==
    IF \E i \in 1..Len(acc) : acc[i].key = key
    THEN CHOOSE i \in 1..Len(acc) : acc[i].key = key
    ELSE 0

\* the members every object inherits from Object.prototype
ObjectPrototypeMethods ==
    {"__defineGetter__", "__defineSetter__", "hasOwnProperty",
     "__lookupGetter__", "__lookupSetter__", "isPrototypeOf",
     "propertyIsEnumerable", "toString", "valueOf", "toLocaleString"}

\* String(({})[key]) for a key that Object.prototype answers, <<>> for a
\* key it does not have: the text of the inherited function, and
\* '[object Object]' for __proto__ (the prototype itself)
InheritedText(key) ==
    IF key = <<"constructor">>
    THEN <<"function Object() { [native code] }">>
    ELSE IF key = <<"__proto__">> THEN <<"[object Object]">>
    ELSE IF Len(key) = 1 /\ key[1] \in ObjectPrototypeMethods
    THEN <<"function ", key[1], "() { [native code] }">>
    ELSE <<>>

\* the number a key stands for when it is a canonical array index ('0',
\* '7', '10': Object.entries lists such keys first, in ascending order),
\* and -1 for any other key
ArrayIndex(key) ==
    IF Len(key) = 1 /\ \E n \in 0..MaxIndexKey : ToString(n) = key[1]
    THEN CHOOSE n \in 0..MaxIndexKey : ToString(n) = key[1]
    ELSE -1

\* acc[entry.key] = ... for a primitive value: the own entry is replaced
\* where it stands; a new one goes among the array indices in ascending
\* order, or after every entry for any other key; the setter of __proto__
\* stores nothing for a primitive
Put(acc, entry) ==
    LET i == OwnIndex(acc, entry.key)
        n == ArrayIndex(entry.key)
        before == SelectSeq(acc, LAMBDA e :
                        ArrayIndex(e.key) >= 0 /\ ArrayIndex(e.key) < n)
        after == SelectSeq(acc, LAMBDA e :
                        ~(ArrayIndex(e.key) >= 0 /\ ArrayIndex(e.key) < n))
    IN IF entry.key = <<"__proto__">> THEN acc
       ELSE IF i # 0 THEN [acc EXCEPT ![i] = entry]
       ELSE IF n < 0 THEN Append(acc, entry)
       ELSE before \o <<entry>> \o after

\* an entry whose value is the number n; an entry whose value is a string
\* carries its text (value is then not read)
NumberEntry(key, n) == [key |-> key, value |-> n, text |-> <<>>]
StringEntry(key, text) == [key |-> key, value |-> 0, text |-> text]

\* Object.values(obj) summed
RECURSIVE SumValues(_)
SumValues(obj) ==
    IF obj = <<>> THEN 0 ELSE Head(obj).value + SumValues(Tail(obj))

\* Array.prototype.sort((a, b) => b.amount - a.amount): stable, descending
RECURSIVE InsertDesc(_, _)
InsertDesc(sorted, e) ==
    IF sorted = <<>> THEN <<e>>
    ELSE IF Head(sorted).amount >= e.amount
         THEN <<Head(sorted)>> \o InsertDesc(Tail(sorted), e)
         ELSE <<e>> \o sorted

\* the comparator reversed: (a, b) => a.amount - b.amount
RECURSIVE InsertAsc(_, _)
InsertAsc(sorted, e) ==
    IF sorted = <<>> THEN <<e>>
    ELSE IF Head(sorted).amount <= e.amount
         THEN <<Head(sorted)>> \o InsertAsc(Tail(sorted), e)
         ELSE <<e>> \o sorted

RECURSIVE SortByAmountAsc(_)
SortByAmountAsc(s) ==
    IF s = <<>> THEN <<>>
    ELSE InsertAsc(SortByAmountAsc(SubSeq(s, 1, Len(s) - 1)), s[Len(s)])

RECURSIVE SortByAmountDesc(_)
SortByAmountDesc(s) ==
    IF s = <<>> THEN <<>>
    ELSE InsertDesc(SortByAmountDesc(SubSeq(s, 1, Len(s) - 1)), s[Len(s)])

----------------------------------------------------------------------------
(* JavaScript numbers: num/den in lowest terms with den > 0, or NaN, or     *)
(* an infinity.  Rationals stand for the doubles the code computes.        *)

Abs(a) == IF a < 0 THEN -a ELSE a

RECURSIVE Gcd(_, _)
Gcd(a, b) == IF b = 0 THEN a ELSE Gcd(b, a % b)

Ratio(n, d) ==
    LET g == Gcd(Abs(n), Abs(d))
        sign == IF d < 0 THEN -1 ELSE 1
    IN [kind |-> "num", num |-> (sign * n) \div g, den |-> (sign * d) \div g]

Num(n) == [kind |-> "num", num |-> n, den |-> 1]
NaN == [kind |-> "nan", num |-> 0, den |-> 1]
Infinity == [kind |-> "inf", num |-> 1, den |-> 1]
NegInfinity == [kind |-> "inf", num |-> -1, den |-> 1]

IsNaN(x) == x.kind = "nan"
IsFinite(x) == x.kind = "num"
IsZero(x) == x.kind = "num" /\ x.num = 0
Positive(x) == x.kind # "nan" /\ x.num > 0
Signed(positive) == IF positive THEN Infinity ELSE NegInfinity

\* a / b
Div(a, b) ==
    IF IsNaN(a) \/ IsNaN(b) THEN NaN
    ELSE IF ~IsFinite(a)
         THEN IF ~IsFinite(b) THEN NaN
              ELSE Signed(Positive(a) = (b.num >= 0))
    ELSE IF ~IsFinite(b) THEN Num(0)
    ELSE IF IsZero(b)
         THEN IF IsZero(a) THEN NaN ELSE Signed(Positive(a))
    ELSE Ratio(a.num * b.den, a.den * b.num)

\* a * b
Mul(a, b) ==
    IF IsNaN(a) \/ IsNaN(b) THEN NaN
    ELSE IF ~IsFinite(a) \/ ~IsFinite(b)
         THEN IF IsZero(a) \/ IsZero(b) THEN NaN
              ELSE Signed(Positive(a) = Positive(b))
    ELSE Ratio(a.num * b.num, a.den * b.den)

\* a + b
Add(a, b) ==
    IF IsNaN(a) \/ IsNaN(b) THEN NaN
    ELSE IF ~IsFinite(a)
         THEN IF ~IsFinite(b) /\ a # b THEN NaN ELSE a
    ELSE IF ~IsFinite(b) THEN b
    ELSE Ratio(a.num * b.den + b.num * a.den, a.den * b.den)

Neg(a) == IF IsNaN(a) THEN NaN ELSE [a EXCEPT !.num = -a.num]

\* a - b
Sub(a, b) == Add(a, Neg(b))

\* a > b
Greater(a, b) ==
    /\ ~IsNaN(a) /\ ~IsNaN(b)
    /\ IF IsFinite(a) /\ IsFinite(b) THEN a.num * b.den > b.num * a.den
       ELSE a # b /\ (IF IsFinite(a) THEN ~Positive(b) ELSE Positive(a))

\* Math.round(a): the nearest integer, halves towards +Infinity
Round(a) ==
    IF IsFinite(a) THEN Num((2 * a.num + a.den) \div (2 * a.den)) ELSE a

\* Math.round(n / 1000) for an integer n
RoundToThousands(n) == (2 * n + 1000) \div 2000

\* Math.max(...list) for a non-empty list of integers
MaxOf(list) ==
    CHOOSE m \in {list[i] : i \in 1..Len(list)} :
        \A i \in 1..Len(list) : list[i] <= m

----------------------------------------------------------------------------
(* Strings as token sequences: includes and split *)

OccursAt(str, needle, i) ==
    /\ i + Len(needle) - 1 <= Len(str)
    /\ SubSeq(str, i, i + Len(needle) - 1) = needle

\* String.prototype.includes
StrIncludes(str, needle) == \E i \in 1..Len(str) : OccursAt(str, needle, i)

\* String.prototype.split with a non-empty separator
RECURSIVE Split(_, _)
Split(str, sep) ==
    IF ~StrIncludes(str, sep) THEN <<str>>
    ELSE LET i == CHOOSE k \in 1..Len(str) :
                    /\ OccursAt(str, sep, k)
                    /\ \A j \in 1..(k - 1) : ~OccursAt(str, sep, j)
         IN <<SubSeq(str, 1, i - 1)>>
                \o Split(SubSeq(str, i + Len(sep), Len(str)), sep)

----------------------------------------------------------------------------
(* GraphQLService: the aggregator *)

\* .reduce((sum, t) => sum + t.amount, 0)
RECURSIVE ReduceSum(_, _)
ReduceSum(s, sum) ==
    IF s = <<>> THEN sum ELSE ReduceSum(Tail(s), sum + Head(s).amount)

calculateTotalXP(transactions) ==
    ReduceSum(SelectSeq(transactions, LAMBDA t : t.type = "xp"), 0)

\* createTimeline with the xp entries in reverse order
createTimelineReversed(transactions) ==
    LET xps == SelectSeq(transactions, LAMBDA t : t.type = "xp")
    IN [i \in 1..Len(xps) |->
            [date |-> xps[Len(xps) + 1 - i].createdAt,
             amount |-> xps[Len(xps) + 1 - i].amount,
             originEventId |-> xps[Len(xps) + 1 - i].originEventId]]

createTimeline(transactions) ==
    LET xps == SelectSeq(transactions, LAMBDA t : t.type = "xp")
    IN [i \in 1..Len(xps) |->
            [date |-> xps[i].createdAt, amount |-> xps[i].amount,
             originEventId |-> xps[i].originEventId]]

\* one step of the reducer of groupXPByPath:
\*   path = t.path || 'Unknown'; acc[path] = (acc[path] || 0) + t.amount
\* acc[path] is the own value, else the inherited member, else undefined;
\* a string or an inherited member is truthy and + appends String(amount)
GroupStep(acc, t) ==
    LET path == IF Truthy(t.path) THEN t.path ELSE UnknownPath
        i == OwnIndex(acc, path)
    IN IF i # 0 /\ acc[i].text # <<>>
       THEN Put(acc, StringEntry(path,
                        acc[i].text \o <<ToString(t.amount)>>))
       ELSE IF i # 0
       THEN Put(acc, NumberEntry(path, acc[i].value + t.amount))
       ELSE IF InheritedText(path) # <<>>
       THEN Put(acc, StringEntry(path,
                        InheritedText(path) \o <<ToString(t.amount)>>))
       ELSE Put(acc, NumberEntry(path, t.amount))

RECURSIVE ReduceGroup(_, _)
ReduceGroup(s, acc) ==
    IF s = <<>> THEN acc ELSE ReduceGroup(Tail(s), GroupStep(acc, Head(s)))

groupXPByPath(transactions) ==
    ReduceGroup(SelectSeq(transactions, LAMBDA t : t.type = "xp"), <<>>)

\* levelTransactions[0]?.amount || 0
FirstAmountOrZero(s) == IF s = <<>> THEN 0 ELSE s[1].amount

\* the level read off the head of the unsorted, unfiltered list
getCurrentLevelUnsorted(transactions) == FirstAmountOrZero(transactions)

getCurrentLevel(transactions) ==
    FirstAmountOrZero(
        SortByAmountDesc(SelectSeq(transactions, LAMBDA t : t.type = "level")))

\* the caller's array after a getCurrentLevel that sorts before it filters
\* (transactions.sort(..).filter(..)): sort reorders its receiver
ArrayAfterSortInPlace(transactions) == SortByAmountDesc(transactions)

\* the caller's array after getCurrentLevel: filter returns a new array and
\* sort reorders that one, so the elements of the argument stay where they are
ArrayAfterGetCurrentLevel(transactions) ==
    LET levelTransactions ==
            SelectSeq(transactions, LAMBDA t : t.type = "level")
        sorted == SortByAmountDesc(levelTransactions)
    IN transactions

----------------------------------------------------------------------------
(* Query results, and what a call returns or throws *)

\* a user record of the response; a collection not in `present` is undefined
UserRecord(present, transactions, audits, xps, progresses) ==
    [login |-> "login", present |-> present,
     totalUp |-> 0, totalDown |-> 0, auditRatio |-> 0,
     transactions |-> transactions, audits |-> audits, xps |-> xps,
     progressesByPath |-> progresses]

Has(userData, field) == field \in userData.present

\* the data of a response: null, or an object whose user field is absent or
\* a list of user records
NullResponse == [isNull |-> TRUE, hasUser |-> FALSE, user |-> <<>>]
NoUserField == [isNull |-> FALSE, hasUser |-> FALSE, user |-> <<>>]
UserList(list) == [isNull |-> FALSE, hasUser |-> TRUE, user |-> list]

UserRecords(txLists) ==
    {UserRecord(present,
                IF "transactions" \in present THEN t ELSE <<>>,
                IF "audits" \in present THEN a ELSE <<>>,
                IF "xps" \in present THEN x ELSE <<>>,
                IF "progressesByPath" \in present THEN g ELSE <<>>) :
        present \in SUBSET Collections, t \in txLists, a \in AuditLists,
        x \in XpLists, g \in ProgressLists}

Responses(txLists) ==
    {NullResponse, NoUserField, UserList(<<>>)}
        \cup {UserList(<<u>>) : u \in UserRecords(txLists)}

\* an error message is the sequence of its words
Returned(v) == [ok |-> TRUE, value |-> <<v>>, error |-> <<>>]
Thrown(message) == [ok |-> FALSE, value |-> <<>>, error |-> message]

\* 'Invalid response structure from GraphQL'
InvalidStructure ==
    <<"I", "n", "v", "a", "l", "i", "d", " ", "r", "e", "s", "p", "o", "n",
      "s", "e", " ", "s", "t", "r", "u", "c", "t", "u", "r", "e", " ", "f",
      "r", "o", "m", " ", "G", "r", "a", "p", "h", "Q", "L">>
\* reading a property of undefined: 'Cannot read properties of undefined'
TypeErrorMessage ==
    <<"C", "a", "n", "n", "o", "t", " ", "r", "e", "a", "d", " ", "p", "r",
      "o", "p", "e", "r", "t", "i", "e", "s", " ", "o", "f", " ", "u", "n",
      "d", "e", "f", "i", "n", "e", "d">>

----------------------------------------------------------------------------
(* GraphQLService.getUserProfile after the query, processUserData; User *)

\* the object literal of lines 163-190: the first collection it reads that
\* is undefined makes it throw; xps alone is defaulted (xps || [])
ProfileOf(userData) ==
    IF ~Has(userData, "audits") THEN Thrown(TypeErrorMessage)
    ELSE IF ~Has(userData, "transactions") THEN Thrown(TypeErrorMessage)
    ELSE IF ~Has(userData, "progressesByPath") THEN Thrown(TypeErrorMessage)
    ELSE Returned(
        [basicInfo |-> [login |-> userData.login],
         auditInfo |->
            [ratio |-> userData.auditRatio,
             totalUp |-> userData.totalUp,
             totalDown |-> userData.totalDown,
             auditsperformed |-> Len(userData.audits),
             audits |-> Len(SelectSeq(userData.audits, LAMBDA a : a.grade > 0))],
         xpInfo |->
            [totalXP |-> calculateTotalXP(userData.transactions),
             xpByPath |-> groupXPByPath(userData.transactions),
             xps |-> IF Has(userData, "xps") THEN userData.xps ELSE <<>>],
         xpTimeline |-> createTimeline(userData.transactions),
         progressInfo |->
            [totalProjects |-> Len(userData.progressesByPath),
             succeededProjects |->
                Len(SelectSeq(userData.progressesByPath, LAMBDA g : g.succeeded)),
             projectDetails |-> userData.progressesByPath],
         level |-> getCurrentLevel(userData.transactions)])

\* getUserProfile without the check of lines 156-158: a missing record is
\* read as a record of empty collections
getUserProfileUnguarded(resp) ==
    IF resp.isNull \/ ~resp.hasUser \/ resp.user = <<>>
    THEN ProfileOf(UserRecord(Collections, <<>>, <<>>, <<>>, <<>>))
    ELSE ProfileOf(resp.user[1])

\* getUserProfile from the query's result on
getUserProfile(resp) ==
    IF resp.isNull \/ ~resp.hasUser \/ resp.user = <<>>
    THEN Thrown(InvalidStructure)
    ELSE ProfileOf(resp.user[1])

\* user.xps.reduce((acc, xp) => { acc[xp.path] = xp.amount; return acc }, {})
RECURSIVE ReduceAssign(_, _)
ReduceAssign(s, acc) ==
    IF s = <<>> THEN acc
    ELSE ReduceAssign(Tail(s),
                      Put(acc, NumberEntry(Head(s).path, Head(s).amount)))

\* the legacy transform: level is user.transactions[0]?.amount || 0
processUserData(data) ==
    IF data.isNull \/ ~data.hasUser \/ data.user = <<>>
    THEN Thrown(TypeErrorMessage)
    ELSE LET u == data.user[1]
         IN IF ~Has(u, "xps") THEN Thrown(TypeErrorMessage)
            ELSE IF ~Has(u, "progressesByPath") THEN Thrown(TypeErrorMessage)
            ELSE IF ~Has(u, "transactions") THEN Thrown(TypeErrorMessage)
            ELSE Returned(
                [basicInfo |-> [login |-> u.login],
                 auditInfo |-> [ratio |-> u.auditRatio, totalUp |-> u.totalUp,
                                totalDown |-> u.totalDown],
                 xpInfo |-> [totalXP |-> ReduceSum(u.xps, 0),
                             xpByPath |-> ReduceAssign(u.xps, <<>>)],
                 progressInfo |->
                    [totalProjects |-> Len(u.progressesByPath),
                     succeededProjects |->
                        Len(SelectSeq(u.progressesByPath, LAMBDA g : g.succeeded)),
                     projectDetails |-> u.progressesByPath],
                 level |-> FirstAmountOrZero(u.transactions)])

\* new User(userData): absent collections default to [], and the level is
\* this.transactions[0]?.amount || 0
NewUser(userData) ==
    LET transactions == IF Has(userData, "transactions")
                        THEN userData.transactions ELSE <<>>
    IN [login |-> userData.login,
        auditRatio |-> userData.auditRatio,
        totalUp |-> userData.totalUp,
        totalDown |-> userData.totalDown,
        progressesByPath |-> IF Has(userData, "progressesByPath")
                             THEN userData.progressesByPath ELSE <<>>,
        transactions |-> transactions,
        xps |-> IF Has(userData, "xps") THEN userData.xps ELSE <<>>,
        level |-> FirstAmountOrZero(transactions)]

----------------------------------------------------------------------------
(* Auth: the stored token.  A token is the sequence of its dot-separated   *)
(* parts; localStorage without a token is NoToken.                         *)

NoToken == <<>>
GoodToken == <<"abc", "abc", "abc">>
EmptyPartToken == <<"abc", "", "abc">>
TwoPartToken == <<"abc", "abc">>

\* parts made only of the characters [A-Za-z0-9_-]
JwtParts == {"abc"}

isAuthenticated(tk) ==
    /\ tk # NoToken
    /\ Len(tk) = 3
    /\ \A i \in 1..Len(tk) : tk[i] # "" /\ tk[i] \in JwtParts

----------------------------------------------------------------------------
(* The application: AuthController, ProfileController, the page's route    *)
(* handlers.  The operators below take and give the record                 *)
(* [token, view, loads, timers] of what a handler has changed so far.      *)

\* Messages are strings held character by character.

\* 'No authentication token found'
NoTokenMessage ==
    <<"N", "o", " ", "a", "u", "t", "h", "e", "n", "t", "i", "c", "a", "t",
      "i", "o", "n", " ", "t", "o", "k", "e", "n", " ", "f", "o", "u", "n",
      "d">>
\* the TypeError of a fetch the network rejects: 'Failed to fetch'
FetchFailedMessage ==
    <<"F", "a", "i", "l", "e", "d", " ", "t", "o", " ", "f", "e", "t", "c",
      "h">>
\* errors[0].message of an expired token: 'Could not verify JWT: JWTExpired'
JwtErrorMessage ==
    <<"C", "o", "u", "l", "d", " ", "n", "o", "t", " ", "v", "e", "r", "i",
      "f", "y", " ", "J", "W", "T", ":", " ", "J", "W", "T", "E", "x", "p",
      "i", "r", "e", "d">>
\* errors[0].message of a query the schema rejects: 'field not found'
FieldErrorMessage ==
    <<"f", "i", "e", "l", "d", " ", "n", "o", "t", " ", "f", "o", "u", "n",
      "d">>
\* 'GraphQL query failed: '
QueryFailedPrefix ==
    <<"G", "r", "a", "p", "h", "Q", "L", " ", "q", "u", "e", "r", "y", " ",
      "f", "a", "i", "l", "e", "d", ":", " ">>
\* `GraphQL query failed: ${error.message}`
QueryFailed(message) == QueryFailedPrefix \o message

\* 'JWT'
JwtWord ==
    <<"J", "W", "T">>
\* 'authentication'
AuthenticationWord ==
    <<"a", "u", "t", "h", "e", "n", "t", "i", "c", "a", "t", "i", "o", "n">>

\* String.prototype.includes: word occurs in message as a substring
Includes(message, word) ==
    \E i \in 1..Len(message) :
        /\ i + Len(word) - 1 <= Len(message)
        /\ SubSeq(message, i, i + Len(word) - 1) = word

\* what the network gives a query: a rejected fetch, a body with errors, or
\* a body with data
FetchRejected == [kind |-> "rejected", message |-> FetchFailedMessage,
                  data |-> NullResponse]
ErrorsBody(message) == [kind |-> "errors", message |-> message,
                        data |-> NullResponse]
DataBody(data) == [kind |-> "data", message |-> <<>>, data |-> data]

SampleTransactions ==
    <<[type |-> "xp", amount |-> 2, createdAt |-> 1, path |-> PathA,
       originEventId |-> 20],
      [type |-> "level", amount |-> 1, createdAt |-> 1, path |-> PathA,
       originEventId |-> 20]>>

FullUser == UserRecord(Collections, SampleTransactions, <<>>, <<>>, <<>>)
UserWithoutTransactions ==
    UserRecord(Collections \ {"transactions"}, <<>>, <<>>, <<>>, <<>>)

NetworkResults ==
    {FetchRejected, ErrorsBody(JwtErrorMessage), ErrorsBody(FieldErrorMessage),
     DataBody(NullResponse), DataBody(NoUserField), DataBody(UserList(<<>>)),
     DataBody(UserList(<<FullUser>>)),
     DataBody(UserList(<<UserWithoutTransactions>>))}

\* a profile load: one ProfileController and its init()
FetchingLoad == [pc |-> "fetch", net |-> <<>>, outcome |-> <<>>,
                 rendered |-> FALSE]
DoneLoad(net, outcome, rendered) ==
    [pc |-> "done", net |-> net, outcome |-> <<outcome>>,
     rendered |-> rendered]

\* localStorage.getItem('token') giving the empty string: falsy like null
EmptyToken == <<"">>

\* the 'auth:logout' listener of AuthController: showLogin()
showLogin(st) == [st EXCEPT !.view = "login"]

\* Auth.logout(): remove the token, dispatch 'auth:logout'
logout(st) == showLogin([st EXCEPT !.token = NoToken])

\* GraphQLService.handleAuthError(): dispatch 'auth:logout'
handleAuthError(st) == showLogin(st)

\* handleError that shows the error panel without scheduling the logout
handleErrorPanelOnly(st, message) ==
    IF Includes(message, AuthenticationWord) \/ Includes(message, JwtWord)
    THEN logout(st)
    ELSE [st EXCEPT !.view = "error"]

\* ProfileController.handleError(error)
handleError(st, message) ==
    IF Includes(message, AuthenticationWord) \/ Includes(message, JwtWord)
    THEN logout(st)
    ELSE [st EXCEPT !.view = "error", !.timers = @ + 1]

\* GraphQLService.query() up to the fetch, and what init() does when the
\* query throws at once: with no token stored no request is sent
showProfile(st) ==
    IF st.token = NoToken \/ st.token = EmptyToken
    THEN LET thrown == Thrown(NoTokenMessage)
             failed == [st EXCEPT !.loads =
                            Append(@, DoneLoad(<<>>, thrown, FALSE))]
         IN handleError(handleAuthError(failed), thrown.error)
    ELSE [st EXCEPT !.loads = Append(@, FetchingLoad)]

\* GraphQLService.query() from the fetch's completion: the data, or the error
queryResult(net) ==
    IF net.kind = "data" THEN Returned(net.data)
    ELSE Thrown(QueryFailed(net.message))

\* query() failing for want of a token without handleAuthError()
querySendWithoutDispatch(tk) ==
    IF tk = NoToken \/ tk = EmptyToken
    THEN [pc |-> "done", token |-> tk, trace |-> <<>>,
          result |-> <<Thrown(NoTokenMessage)>>]
    ELSE [pc |-> "fetch", token |-> tk, trace |-> <<"fetch">>,
          result |-> <<>>]

\* GraphQLService.query(queryString) up to its first await, tk being
\* stored: the token it read, what it has done in order (the fetch it
\* sent, the events it dispatched) and, when it has ended, how
querySend(tk) ==
    IF tk = NoToken \/ tk = EmptyToken
    THEN [pc |-> "done", token |-> tk, trace |-> <<"auth:logout">>,
          result |-> <<Thrown(NoTokenMessage)>>]
    ELSE [pc |-> "fetch", token |-> tk, trace |-> <<"fetch">>,
          result |-> <<>>]

\* query() resumed by the fetch: rejected, the catch ends it; answered, it
\* awaits response.json()
queryResponse(run, net) ==
    IF net.kind = "rejected"
    THEN [run EXCEPT !.pc = "done", !.result = <<queryResult(net)>>]
    ELSE [run EXCEPT !.pc = "json"]

\* query() resumed by the body: the dispatch for a JWT error, then the
\* data or the error
queryBody(run, net) ==
    [run EXCEPT
        !.pc = "done",
        !.trace = @ \o (IF net.kind = "errors"
                            /\ Includes(net.message, JwtWord)
                         THEN <<"auth:logout">> ELSE <<>>),
        !.result = <<queryResult(net)>>]

\* query() from the call to its end, the network answering net
query(tk, net) ==
    IF querySend(tk).pc = "done" THEN querySend(tk)
    ELSE IF queryResponse(querySend(tk), net).pc = "done"
    THEN queryResponse(querySend(tk), net)
    ELSE queryBody(queryResponse(querySend(tk), net), net)

\* the rest of init() for load i once the network has answered with net
completeLoad(st, i, net) ==
    LET afterQuery ==
            IF net.kind = "errors" /\ Includes(net.message, JwtWord)
            THEN handleAuthError(st) ELSE st
        result == IF queryResult(net).ok
                  THEN getUserProfile(queryResult(net).value[1])
                  ELSE queryResult(net)
    IN IF result.ok
       THEN [afterQuery EXCEPT
                !.view = "profile",
                !.loads[i] = DoneLoad(<<net>>, result, TRUE)]
       ELSE handleError(
                [afterQuery EXCEPT !.loads[i] = DoneLoad(<<net>>, result, FALSE)],
                result.error)

\* handleRoute() of the page
handleRoute(st, wasRefreshed) ==
    IF wasRefreshed
    THEN showLogin(IF isAuthenticated(st.token) THEN logout(st) ELSE st)
    ELSE IF isAuthenticated(st.token) THEN showProfile(st)
         ELSE showLogin(st)

\* the page's second popstate listener (back button)
backButton(st) ==
    showLogin(IF isAuthenticated(st.token) THEN logout(st) ELSE st)

\* the two popstate listeners run while authController is undefined
popStateBeforeBoot(st) ==
    IF isAuthenticated(st.token) THEN [st EXCEPT !.token = NoToken] ELSE st

\* Auth.login() from the response on: the token text is stripped of its
\* enclosing quotes and stored when it is non-empty and has three parts
LoginRejected == [ok |-> FALSE, quoted |-> FALSE, body |-> NoToken]
LoginText(quoted, body) == [ok |-> TRUE, quoted |-> quoted, body |-> body]

LoginResults ==
    {LoginRejected} \cup
    {LoginText(q, b) : q \in BOOLEAN,
                       b \in {GoodToken, EmptyPartToken, TwoPartToken}}

cleanToken(reply) == reply.body

loginStores(reply) ==
    reply.ok /\ cleanToken(reply) # NoToken /\ Len(cleanToken(reply)) = 3

\* AuthController.handleLogin(credentials) from the reply on
handleLogin(st, reply) ==
    IF loginStores(reply)
    THEN showProfile([st EXCEPT !.token = cleanToken(reply)])
    ELSE st

----------------------------------------------------------------------------
(* ProfileView.renderProjectPieChart.  Angles are in degrees: -Math.PI/2   *)
(* is -90 and percentage * Math.PI * 2 is percentage * 360.  A point of    *)
(* the path is held by its radius and angle about the centre; its          *)
(* coordinates centre + r*cos, centre + r*sin are NaN when the angle is    *)
(* not finite.                                                             *)

BahrainModule == <<"/", "bahrain", "/", "bh-module", "/">>

TitleHeight == 60
PieChartHeight == 500
RectHeight == 40
RectMargin == 10
RectWidth == 450
LeftColumnX == 50
BottomPadding == 30
ViewBoxWidth == 1000
Radius == 220
InnerRadius == 90
PaletteLength == 65
LabelThresholdPercent == 3

\* the filter of lines 106-118
SelectedPath(path) ==
    /\ path # EmptyString
    /\ StrIncludes(path, BahrainModule)
    /\ Len(Split(path, BahrainModule)) = 2
    /\ ~StrIncludes(Split(path, BahrainModule)[2], <<"/">>)

\* the map of lines 119-128
ProjectOf(entry) ==
    [project |-> Split(entry.key, BahrainModule)[2],
     amount |-> RoundToThousands(entry.value),
     path |-> entry.key]

\* Array.prototype.map with ProjectOf
MapProjects(entries) == [i \in 1..Len(entries) |-> ProjectOf(entries[i])]

\* projectXP of lines 105-137: filtered, mapped, sorted
ProjectXP(obj) ==
    SortByAmountDesc(
        MapProjects(SelectSeq(obj, LAMBDA entry : SelectedPath(entry.key))))

\* percentage * Math.PI (half a turn)
AngleSizeHalfTurn(percentage) == Mul(percentage, Num(180))

\* percentage * Math.PI * 2
AngleSize(percentage) == Mul(percentage, Num(360))

\* the shares p/q in [0, 1] whose product (p / q) * 100, computed in
\* doubles, falls just below the half-integer it equals exactly (0.575 *
\* 100 is 57.49999999999999): Math.round then gives the lower whole number.
\* Only a share with 200 * p / q odd can differ, so q is 8, 40 or 200, and
\* of those shares these four do.
SharesBelowHalf == {<<23, 40>>, <<29, 200>>, <<57, 200>>, <<113, 200>>}

\* Math.round(percentage) * 100
PercentRoundedFirst(percentage) == Mul(Round(percentage), Num(100))

\* Math.round(percentage * 100), percentage a quotient of two whole numbers
Percent(percentage) ==
    IF percentage.kind = "num"
       /\ <<percentage.num, percentage.den>> \in SharesBelowHalf
    THEN Sub(Round(Mul(percentage, Num(100))), Num(1))
    ELSE Round(Mul(percentage, Num(100)))

ArcPoint(r, angle) ==
    [r |-> r, angle |-> angle,
     coordinates |-> IF IsFinite(angle) THEN "finite" ELSE "NaN"]

\* the percentage label also for a slice of exactly the threshold share
LabelOfAtOrAbove(percentage, startAngle, angleSize) ==
    IF ~Greater(Num(LabelThresholdPercent), Mul(percentage, Num(100)))
       /\ ~IsNaN(percentage)
    THEN <<[at |-> ArcPoint(InnerRadius + (Radius - InnerRadius) \div 2,
                            Add(startAngle, Div(angleSize, Num(2)))),
            text |-> Percent(percentage)]>>
    ELSE <<>>

\* the percentage label of lines 320-338: if (percentage > 0.03)
LabelOf(percentage, startAngle, angleSize) ==
    IF Greater(Mul(percentage, Num(100)), Num(LabelThresholdPercent))
    THEN <<[at |-> ArcPoint(InnerRadius + (Radius - InnerRadius) \div 2,
                            Add(startAngle, Div(angleSize, Num(2)))),
            text |-> Percent(percentage)]>>
    ELSE <<>>

\* one pass of the forEach of lines 254-341 for project i at startAngle
Slice(project, i, startAngle, total) ==
    LET percentage == Div(Num(project.amount), Num(total))
        angleSize == AngleSize(percentage)
        endAngle == Add(startAngle, angleSize)
    IN [project |-> project.project,
        amount |-> project.amount,
        percentage |-> Percent(percentage),
        startAngle |-> startAngle,
        endAngle |-> endAngle,
        largeArcFlag |-> IF Greater(angleSize, Num(180)) THEN 1 ELSE 0,
        d |-> <<ArcPoint(InnerRadius, startAngle), ArcPoint(Radius, startAngle),
                ArcPoint(Radius, endAngle), ArcPoint(InnerRadius, endAngle)>>,
        fill |-> (i - 1) % PaletteLength,
        label |-> LabelOf(percentage, startAngle, angleSize)]

\* the slices of projects i.. , the first of them starting at startAngle
RECURSIVE Slices(_, _, _, _)
Slices(projects, i, startAngle, total) ==
    IF i > Len(projects) THEN <<>>
    ELSE LET slice == Slice(projects[i], i, startAngle, total)
         IN <<slice>> \o Slices(projects, i + 1, slice.endAngle, total)

\* the legend with every entry in the left column
LegendEntryOneColumn(project, i, total) ==
    LET rowIndex == (i - 1) \div 2
        rectY == TitleHeight + PieChartHeight
                    + rowIndex * (RectHeight + RectMargin)
    IN [project |-> project.project,
        x |-> LeftColumnX, y |-> rectY, width |-> RectWidth,
        height |-> RectHeight,
        fill |-> (i - 1) % PaletteLength,
        percent |-> Percent(Div(Num(project.amount), Num(total))),
        amount |-> project.amount]

\* one pass of the forEach of lines 404-461
LegendEntry(project, i, total) ==
    LET rowIndex == (i - 1) \div 2
        rectX == IF (i - 1) % 2 = 0 THEN LeftColumnX
                 ELSE LeftColumnX + RectWidth + RectMargin
        rectY == TitleHeight + PieChartHeight
                    + rowIndex * (RectHeight + RectMargin)
    IN [project |-> project.project,
        x |-> rectX, y |-> rectY, width |-> RectWidth, height |-> RectHeight,
        fill |-> (i - 1) % PaletteLength,
        percent |-> Percent(Div(Num(project.amount), Num(total))),
        amount |-> project.amount]

\* Math.floor(n / 2) in the place of Math.ceil(n / 2)
FloorHalf(n) == n \div 2

\* Math.ceil(n / 2)
CeilHalf(n) == (n + 1) \div 2

Untouched == [kind |-> "untouched", height |-> 0, containerHeight |-> 0,
              total |-> 0, slices |-> <<>>, legend |-> <<>>]
Placeholder == [kind |-> "placeholder", height |-> 0,
                containerHeight |-> 0, total |-> 0,
                slices |-> <<>>, legend |-> <<>>]

renderProjectPieChart(container, obj) ==
    IF ~container THEN Untouched
    ELSE LET projects == ProjectXP(obj)
             total == ReduceSum(projects, 0)
         IN IF Len(projects) = 0 THEN Placeholder
            ELSE [kind |-> "chart",
                  height |-> TitleHeight + PieChartHeight
                        + CeilHalf(Len(projects)) * (RectHeight + RectMargin)
                        + BottomPadding,
                  containerHeight |-> TitleHeight + PieChartHeight
                        + CeilHalf(Len(projects)) * (RectHeight + RectMargin)
                        + BottomPadding,
                  total |-> total,
                  slices |-> Slices(projects, 1, Num(-90), total),
                  legend |-> [i \in 1..Len(projects) |->
                                LegendEntry(projects[i], i, total)]]

----------------------------------------------------------------------------
(* SVGUtils.calculateTimelinePath: the commands of the path, one a point *)

ViewWidth == 100
ViewHeight == 50

calculateTimelinePath(data) ==
    IF Len(data) = 0 THEN <<>>
    ELSE LET maxXP == MaxOf([i \in 1..Len(data) |-> data[i].amount])
         IN [k \in 1..Len(data) |->
                [cmd |-> IF k = 1 THEN "M" ELSE "L",
                 x |-> Mul(Div(Num(k - 1), Num(Len(data) - 1)), Num(ViewWidth)),
                 y |-> Sub(Num(ViewHeight),
                           Mul(Div(Num(data[k].amount), Num(maxXP)),
                               Num(ViewHeight)))]]

\* container.style.height as the last render that set it left it (kept
\* with the child it was set for); 0 stands for a height never set
StyleHeight(children) ==
    IF children = <<>> THEN 0 ELSE children[Len(children)].containerHeight

\* the children of #xp-pie-chart after renderProjectPieChart drew `drawn`:
\* the placeholder is assigned to innerHTML, the chart is appended after
\* container.innerHTML = ''; without a container nothing is touched.  Only
\* the chart branch assigns container.style.height (line 159): under the
\* placeholder the container keeps the height it had.
ContainerAfterRender(children, drawn) ==
    IF drawn.kind = "untouched" THEN children
    ELSE IF drawn.kind = "placeholder"
    THEN <<[drawn EXCEPT !.containerHeight = StyleHeight(children)]>>
    ELSE <<drawn>>

----------------------------------------------------------------------------
(* SVGUtils: the bar builders.  A rectangle is the record of the attributes *)
(* the code sets on it; a builder's result is what it appends to its svg.   *)

\* config.charts.dimensions and config.charts.colors
ConfigBarWidth == 50
ConfigBarHeight == 12
SuccessColor == "#2ecc71"
ErrorColor == "#e74c3c"

\* the plot of createAuditRatioChart (viewBox '0 0 100 100') and the spacing
\* between its bars
PlotSize == 100
BarSpacing == 2

\* the bar of createProgressChart: createBar(10, 10, passRate * 80, 10, ..)
ProgressLeft == 10
ProgressTop == 10
ProgressWidth == 80
ProgressHeight == 10

Rect(x, y, width, height, fill) ==
    [x |-> x, y |-> y, width |-> width, height |-> height, fill |-> fill]

\* createAuditRatioChart(up, down, containerId), the container being there
createAuditRatioChart(up, down) ==
    LET keys == <<up, down>>
        maxAttributeValue == MaxOf(keys)
        barWidth == Div(Num(PlotSize), Num(Len(keys)))
    IN [index \in 1..Len(keys) |->
            LET barHeight == Mul(Div(Num(keys[index]), Num(maxAttributeValue)),
                                 Num(PlotSize))
            IN Rect(Mul(Num(index - 1), barWidth),
                    Sub(Num(PlotSize), barHeight),
                    Sub(barWidth, Num(BarSpacing)),
                    barHeight,
                    IF index = 1 THEN "skyblue" ELSE "lightgreen")]

\* getPassFailRatio without the test on total
getPassFailRatioUnguarded(progressesByPath) ==
    Div(Num(Len(SelectSeq(progressesByPath, LAMBDA p : p.succeeded))),
        Num(Len(progressesByPath)))

\* User.getPassFailRatio() of a user with these progressesByPath
getPassFailRatio(progressesByPath) ==
    LET passed == Len(SelectSeq(progressesByPath, LAMBDA p : p.succeeded))
        total == Len(progressesByPath)
    IN IF total > 0 THEN Div(Num(passed), Num(total)) ELSE Num(0)

\* createPassFailChart without its second rectangle when that one is empty
createPassFailChartDroppingEmpty(progressData) ==
    LET passed == Len(SelectSeq(progressData, LAMBDA p : p.succeeded))
        total == Len(progressData)
        ratio == IF total > 0 THEN Div(Num(passed), Num(total)) ELSE Num(0)
        passedWidth == Mul(ratio, Num(ConfigBarWidth))
        rect1 == Rect(Num(10), Num(10), passedWidth, Num(ConfigBarHeight),
                      SuccessColor)
        rect2 == Rect(Add(Num(10), passedWidth), Num(10),
                      Mul(Sub(Num(1), ratio), Num(ConfigBarWidth)),
                      Num(ConfigBarHeight), ErrorColor)
    IN [rects |-> IF IsZero(rect2.width) THEN <<rect1>> ELSE <<rect1, rect2>>,
        text |-> Percent(ratio)]

\* createPassFailChart(progressData, containerId): the two rectangles and the
\* number of the percentage text
createPassFailChart(progressData) ==
    LET passed == Len(SelectSeq(progressData, LAMBDA p : p.succeeded))
        total == Len(progressData)
        ratio == IF total > 0 THEN Div(Num(passed), Num(total)) ELSE Num(0)
        rect1 == Rect(Num(10), Num(10),
                      Mul(ratio, Num(ConfigBarWidth)),
                      Num(ConfigBarHeight), SuccessColor)
        rect2 == Rect(Add(Num(10), Mul(ratio, Num(ConfigBarWidth))), Num(10),
                      Mul(Sub(Num(1), ratio), Num(ConfigBarWidth)),
                      Num(ConfigBarHeight), ErrorColor)
    IN [rects |-> <<rect1, rect2>>,
        text |-> Percent(ratio)]

\* createProgressChart(progressStats, containerId): passedBar and failedBar
createProgressChart(progressStats) ==
    LET passedBar == Rect(Num(ProgressLeft), Num(ProgressTop),
                          Mul(progressStats.passRate, Num(ProgressWidth)),
                          Num(ProgressHeight), SuccessColor)
        failedBar == Rect(Add(Num(ProgressLeft),
                              Mul(progressStats.passRate, Num(ProgressWidth))),
                          Num(ProgressTop),
                          Mul(Sub(Num(1), progressStats.passRate),
                              Num(ProgressWidth)),
                          Num(ProgressHeight), ErrorColor)
    IN <<passedBar, failedBar>>

----------------------------------------------------------------------------
(* ProfileView.darkenColor.  A colour string is the sequence of its         *)
(* characters, "#" first.                                                   *)

LowerHex == <<"0", "1", "2", "3", "4", "5", "6", "7", "8", "9",
              "a", "b", "c", "d", "e", "f">>
UpperHex == <<"0", "1", "2", "3", "4", "5", "6", "7", "8", "9",
              "A", "B", "C", "D", "E", "F">>

\* the value of a hexadecimal digit of either case
DigitValue(ch) ==
    CHOOSE v \in 0..15 : LowerHex[v + 1] = ch \/ UpperHex[v + 1] = ch

\* color.replace('#', ''): the string without its first '#'
RECURSIVE RemoveHash(_)
RemoveHash(str) ==
    IF str = <<>> THEN <<>>
    ELSE IF Head(str) = "#" THEN Tail(str)
    ELSE <<Head(str)>> \o RemoveHash(Tail(str))

\* parseInt(str, 16) of a string of hexadecimal digits
RECURSIVE ParseHex(_, _)
ParseHex(str, acc) ==
    IF str = <<>> THEN acc
    ELSE ParseHex(Tail(str), 16 * acc + DigitValue(Head(str)))

\* n.toString(16) of a non-negative integer
RECURSIVE ToString16(_)
ToString16(n) ==
    IF n < 16 THEN <<LowerHex[n + 1]>>
    ELSE ToString16(n \div 16) \o <<LowerHex[(n % 16) + 1]>>

\* the percents at which the double product 2.55 * percent is the double
\* just below k + 1/2 (2.55 is stored as a double slightly below 255/100)
ProductBelowHalf == {50, 90}

\* Math.round(2.55 * percent)
DarkenAmount(p) ==
    IF p \in ProductBelowHalf THEN (255 * p) \div 100
    ELSE (2 * 255 * p + 100) \div 200

\* darkenColor with the channels wrapping around instead of stopping at 0
darkenColorWrapping(col, p) ==
    LET num == ParseHex(RemoveHash(col), 0)
        amt == DarkenAmount(p)
        R == ((num \div 65536) - amt) % 256
        G == (((num \div 256) % 256) - amt) % 256
        B == ((num % 256) - amt) % 256
    IN <<"#">> \o Tail(ToString16(16777216 + R * 65536 + G * 256 + B))

\* darkenColor(color, percent)
darkenColor(col, p) ==
    LET num == ParseHex(RemoveHash(col), 0)
        amt == DarkenAmount(p)
        R == (num \div 65536) - amt
        G == ((num \div 256) % 256) - amt
        B == (num % 256) - amt
    IN <<"#">> \o Tail(ToString16(16777216
                                  + (IF R < 0 THEN 0 ELSE R) * 65536
                                  + (IF G < 0 THEN 0 ELSE G) * 256
                                  + (IF B < 0 THEN 0 ELSE B)))

----------------------------------------------------------------------------
(* SVGUtils.createProjectDistribution *)

\* the plot of createProjectDistribution: bars of up to 60 standing on y = 70,
\* from x = 20 on, sharing a width of 160 with a spacing of 5
DistBarMax == 60
DistBaseline == 70
DistLeft == 20
DistWidth == 160
DistSpacing == 5

\* the category taken from the first part of the split (split('/')[0])
\* project.path.split('/')[1] || 'Other'
CategoryOf(path) ==
    LET parts == Split(path, <<"/">>)
    IN IF Len(parts) >= 2 /\ parts[2] # <<>> THEN parts[2] ELSE <<"Other">>

\* the forEach of lines 300-312: categories as entries in Object.keys
\* order.  For a category that names a member of Object.prototype
\* categories[category] is that member: truthy, so no own entry is made,
\* and total++ and completed++ act on the inherited member.
RECURSIVE CountCategories(_, _)
CountCategories(projects, categories) ==
    IF projects = <<>> THEN categories
    ELSE LET project == Head(projects)
             category == CategoryOf(project.path)
             known == IF OwnIndex(categories, category) = 0
                      THEN Put(categories,
                               [key |-> category,
                                value |-> [total |-> 0, completed |-> 0]])
                      ELSE categories
             i == OwnIndex(known, category)
             counted == [known EXCEPT ![i].value.total = @ + 1]
         IN CountCategories(Tail(projects),
                IF OwnIndex(categories, category) = 0
                   /\ InheritedText(category) # <<>>
                THEN categories
                ELSE IF project.succeeded
                THEN [counted EXCEPT ![i].value.completed = @ + 1]
                ELSE counted)

\* createProjectDistribution(projectDetails, containerId), the container
\* being there: one bar per category
createProjectDistribution(projectDetails) ==
    LET categories == CountCategories(projectDetails, <<>>)
        barWidth == Div(Num(DistWidth), Num(Len(categories)))
    IN [index \in 1..Len(categories) |->
            LET completedHeight ==
                    Mul(Div(Num(categories[index].value.completed),
                            Num(categories[index].value.total)),
                        Num(DistBarMax))
            IN [category |-> categories[index].key,
                total |-> categories[index].value.total,
                completed |-> categories[index].value.completed,
                x |-> Add(Num(DistLeft),
                          Mul(Num(index - 1), Add(barWidth, Num(DistSpacing)))),
                y |-> Sub(Num(DistBaseline), completedHeight),
                width |-> barWidth,
                height |-> completedHeight]]

----------------------------------------------------------------------------
(* Each specification leaves the other specifications' variables idle *)

IdleAgg ==
    /\ txs = <<>> /\ totalXP = <<>> /\ xpByPath = <<>>
    /\ xpTimeline = <<>> /\ level = <<>>

IdleProfile ==
    /\ response = NullResponse /\ profile = <<>> /\ legacy = <<>>
    /\ user = <<>>

IdleApp ==
    /\ booted = FALSE /\ refreshed = FALSE /\ token = NoToken
    /\ view = "blank" /\ loads = <<>> /\ timers = 0 /\ logins = 0
    /\ stale = 0

IdlePie == pieContainer = FALSE /\ pieInput = <<>> /\ scene = <<>>

IdleTimeline == xpData = <<>> /\ pathData = <<>>

IdleCharts ==
    /\ audit = <<>> /\ auditChart = <<>> /\ progress = <<>>
    /\ passFailRatio = <<>> /\ passFailChart = <<>>
    /\ passRate = <<>> /\ progressChart = <<>>

IdleColor == color = <<>> /\ percent = 0 /\ darkened = <<>>

IdleRerender == pieBox = <<>> /\ renders = 0 /\ pathRuns = <<>>

IdleQuery == qToken = <<>> /\ qNet = <<>> /\ qRun = <<>>

IdleDistribution == distInput = <<>> /\ distribution = <<>>

----------------------------------------------------------------------------
(* SpecAgg: the aggregator's methods applied to a transaction list *)

InitAgg ==
    /\ txs \in SeqsUpTo(Transactions(TxTypes, TxAmounts, TxPaths), MaxTx)
            \cup SeqsUpTo(Transactions({"xp"}, KeyAmounts, KeyPaths), MaxKeyTx)
    /\ totalXP = <<>>
    /\ xpByPath = <<>>
    /\ xpTimeline = <<>>
    /\ level = <<>>
    /\ IdleProfile /\ IdleApp /\ IdlePie /\ IdleTimeline
    /\ IdleCharts /\ IdleColor /\ IdleRerender
    /\ IdleQuery /\ IdleDistribution

CalculateTotalXP ==
    /\ totalXP = <<>>
    /\ totalXP' = <<calculateTotalXP(txs)>>
    /\ UNCHANGED <<txs, xpByPath, xpTimeline, level, exceptAgg>>

GroupXPByPath ==
    /\ xpByPath = <<>>
    /\ xpByPath' = <<groupXPByPath(txs)>>
    /\ UNCHANGED <<txs, totalXP, xpTimeline, level, exceptAgg>>

CreateTimeline ==
    /\ xpTimeline = <<>>
    /\ xpTimeline' = <<createTimeline(txs)>>
    /\ UNCHANGED <<txs, totalXP, xpByPath, level, exceptAgg>>

GetCurrentLevel ==
    /\ level = <<>>
    /\ level' = <<getCurrentLevel(txs)>>
    /\ txs' = ArrayAfterGetCurrentLevel(txs)
    /\ UNCHANGED <<totalXP, xpByPath, xpTimeline, exceptAgg>>

NextAgg == CalculateTotalXP \/ GroupXPByPath \/ CreateTimeline \/ GetCurrentLevel

SpecAgg == InitAgg /\ [][NextAgg]_vars

----------------------------------------------------------------------------
(* SpecProfile: a query result handed to getUserProfile, to the legacy     *)
(* processUserData and to the User constructor                             *)

InitProfile ==
    /\ response \in Responses(
            {rows \in SeqsUpTo(ProfileTransactions, MaxProfileTx) :
                OrderedByCreatedAtDesc(rows)})
    /\ profile = <<>>
    /\ legacy = <<>>
    /\ user = <<>>
    /\ IdleAgg /\ IdleApp /\ IdlePie /\ IdleTimeline
    /\ IdleCharts /\ IdleColor /\ IdleRerender
    /\ IdleQuery /\ IdleDistribution

GetUserProfile ==
    /\ profile = <<>>
    /\ profile' = <<getUserProfile(response)>>
    /\ UNCHANGED <<response, legacy, user, exceptProfile>>

ProcessUserData ==
    /\ legacy = <<>>
    /\ legacy' = <<processUserData(response)>>
    /\ UNCHANGED <<response, profile, user, exceptProfile>>

ConstructUser ==
    /\ user = <<>>
    /\ ~response.isNull /\ response.hasUser /\ response.user # <<>>
    /\ user' = <<NewUser(response.user[1])>>
    /\ UNCHANGED <<response, profile, legacy, exceptProfile>>

NextProfile == GetUserProfile \/ ProcessUserData \/ ConstructUser

SpecProfile == InitProfile /\ [][NextProfile]_vars

----------------------------------------------------------------------------
(* Spec: the application from the page load on *)

Current == [token |-> token, view |-> view, loads |-> loads,
            timers |-> timers]

Becomes(st) ==
    /\ token' = st.token
    /\ view' = st.view
    /\ loads' = st.loads
    /\ timers' = st.timers

Init ==
    /\ booted = FALSE
    /\ refreshed \in BOOLEAN
    /\ token \in {NoToken, GoodToken}
    /\ view = "blank"
    /\ loads = <<>>
    /\ timers = 0
    /\ logins = 0
    /\ stale = 0
    /\ IdleAgg /\ IdleProfile /\ IdlePie /\ IdleTimeline
    /\ IdleCharts /\ IdleColor /\ IdleRerender
    /\ IdleQuery /\ IdleDistribution

\* DOMContentLoaded: the AuthController is made and the first route handled
DOMContentLoaded ==
    /\ ~booted
    /\ booted' = TRUE
    /\ Becomes(handleRoute(Current, refreshed))
    /\ UNCHANGED <<refreshed, logins, stale, exceptApp>>

\* popstate: handleRoute, then the back-button listener.  Both listeners
\* are registered when the page script runs; before DOMContentLoaded has
\* made authController each of them throws at authController.showLogin or
\* showProfile, after auth.logout() has removed a token that
\* isAuthenticated accepts ('auth:logout' has no listener yet).
PopState ==
    /\ IF booted
       THEN /\ Len(handleRoute(Current, refreshed).loads) <= MaxLoads
            /\ Becomes(backButton(handleRoute(Current, refreshed)))
       ELSE Becomes(popStateBeforeBoot(Current))
    /\ UNCHANGED <<booted, refreshed, logins, stale, exceptApp>>

\* the login form is submitted: Auth.login() sends its request
SubmitLogin ==
    /\ booted
    /\ view = "login"
    /\ logins < MaxLogins
    /\ logins' = logins + 1
    /\ UNCHANGED <<booted, refreshed, token, view, loads, timers, stale,
                   exceptApp>>

\* the sign-in endpoint answers.  stale keeps how many of the timers
\* pending now were set before the latest login that stored a token.
LoginComplete ==
    /\ logins > 0
    /\ \E reply \in LoginResults :
        /\ Len(handleLogin(Current, reply).loads) <= MaxLoads
        /\ Becomes(handleLogin(Current, reply))
        /\ stale' = IF loginStores(reply) THEN timers ELSE stale
    /\ logins' = logins - 1
    /\ UNCHANGED <<booted, refreshed, exceptApp>>

\* the GraphQL endpoint answers the query of load i
FetchComplete ==
    /\ \E i \in 1..Len(loads), net \in NetworkResults :
        /\ loads[i].pc = "fetch"
        /\ Becomes(completeLoad(Current, i, net))
    /\ UNCHANGED <<booted, refreshed, logins, stale, exceptApp>>

\* the 2-second timer of handleError fires: Auth.logout().  The timers
\* have one delay and fire in the order they were set, the ones counted by
\* stale first.
TimerFire ==
    /\ timers > 0
    /\ Becomes(logout([Current EXCEPT !.timers = @ - 1]))
    /\ stale' = IF stale > 0 THEN stale - 1 ELSE 0
    /\ UNCHANGED <<booted, refreshed, logins, exceptApp>>

\* the logout button of the profile view: the listener of ProfileView
\* dispatches 'auth:logout', the listener of ProfileController logs out
LogoutClick ==
    /\ view = "profile"
    /\ Becomes(logout(showLogin(Current)))
    /\ UNCHANGED <<booted, refreshed, logins, stale, exceptApp>>

Next ==
    \/ DOMContentLoaded
    \/ PopState
    \/ SubmitLogin
    \/ LoginComplete
    \/ FetchComplete
    \/ TimerFire
    \/ LogoutClick

Spec == Init /\ [][Next]_vars

\* the same application with its timers served: a pending setTimeout
\* callback is run by the event loop
SpecLive == Spec /\ WF_vars(TimerFire)

----------------------------------------------------------------------------
(* SpecPie: renderProjectPieChart applied to an xpByPath object *)

MaxProjects == 3

ProjectA == BahrainModule \o <<"a">>
ProjectB == BahrainModule \o <<"b">>
NamelessProject == BahrainModule
NestedProject == BahrainModule \o <<"a", "/", "b">>
PrefixedProject == <<"/", "a">> \o BahrainModule \o <<"b">>

PiePaths == {ProjectA, ProjectB, NamelessProject, NestedProject,
             PrefixedProject, UnknownPath}
PieAmounts == {0, 400, 1000, 7000}

\* amounts around the label threshold (shares of 1, 3 and 4 in a hundred)
\* and amounts whose share, 23/40, is rounded in doubles to 57 percent
ThresholdAmounts == {<<1000, 99000>>, <<3000, 97000>>, <<4000, 96000>>,
                     <<23000, 17000>>}
ThresholdInputs ==
    {<<[key |-> ProjectA, value |-> pair[1]],
       [key |-> ProjectB, value |-> pair[2]]>> : pair \in ThresholdAmounts}

\* objects: entries in insertion order, no key twice
Objects(keys, values, n) ==
    {obj \in SeqsUpTo([key : keys, value : values], n) :
        \A i, j \in 1..Len(obj) : obj[i].key = obj[j].key => i = j}

InitPie ==
    /\ pieContainer \in BOOLEAN
    /\ pieInput \in Objects(PiePaths, PieAmounts, MaxProjects)
                        \cup ThresholdInputs
    /\ scene = <<>>
    /\ IdleAgg /\ IdleProfile /\ IdleApp /\ IdleTimeline
    /\ IdleCharts /\ IdleColor /\ IdleRerender
    /\ IdleQuery /\ IdleDistribution

RenderProjectPieChart ==
    /\ scene = <<>>
    /\ scene' = <<renderProjectPieChart(pieContainer, pieInput)>>
    /\ UNCHANGED <<pieContainer, pieInput, exceptPie>>

NextPie == RenderProjectPieChart

SpecPie == InitPie /\ [][NextPie]_vars

----------------------------------------------------------------------------
(* SpecTimeline: calculateTimelinePath applied to a list of points *)

MaxPoints == 3

TimelineAmounts == {0, 1, 2, 3}

TimelinePoints == [date : TxDates, amount : TimelineAmounts,
                   originEventId : TxEvents]

InitTimeline ==
    /\ xpData \in SeqsUpTo(TimelinePoints, MaxPoints)
    /\ pathData = <<>>
    /\ IdleAgg /\ IdleProfile /\ IdleApp /\ IdlePie
    /\ IdleCharts /\ IdleColor /\ IdleRerender
    /\ IdleQuery /\ IdleDistribution

CalculateTimelinePath ==
    /\ pathData = <<>>
    /\ pathData' = <<calculateTimelinePath(xpData)>>
    /\ UNCHANGED <<xpData, exceptTimeline>>

NextTimeline == CalculateTimelinePath

SpecTimeline == InitTimeline /\ [][NextTimeline]_vars

----------------------------------------------------------------------------
(* SpecCharts: the bar builders applied to their arguments *)

MaxProgress == 3
AuditTotals == {0, 1, 2, 3}
ProgressItems == [succeeded : BOOLEAN, count : {1}, path : {PathA}]
PassRates == {Ratio(0, 1), Ratio(1, 4), Ratio(1, 2), Ratio(1, 1)}

InitCharts ==
    /\ audit \in [up : AuditTotals, down : AuditTotals]
    /\ progress \in SeqsUpTo(ProgressItems, MaxProgress)
    /\ passRate \in PassRates
    /\ auditChart = <<>> /\ passFailRatio = <<>> /\ passFailChart = <<>>
    /\ progressChart = <<>>
    /\ IdleAgg /\ IdleProfile /\ IdleApp /\ IdlePie /\ IdleTimeline
    /\ IdleColor /\ IdleRerender
    /\ IdleQuery /\ IdleDistribution

CreateAuditRatioChart ==
    /\ auditChart = <<>>
    /\ auditChart' = <<createAuditRatioChart(audit.up, audit.down)>>
    /\ UNCHANGED <<audit, progress, passFailRatio, passFailChart, passRate,
                   progressChart, exceptCharts>>

GetPassFailRatio ==
    /\ passFailRatio = <<>>
    /\ passFailRatio' = <<getPassFailRatio(progress)>>
    /\ UNCHANGED <<audit, auditChart, progress, passFailChart, passRate,
                   progressChart, exceptCharts>>

CreatePassFailChart ==
    /\ passFailChart = <<>>
    /\ passFailChart' = <<createPassFailChart(progress)>>
    /\ UNCHANGED <<audit, auditChart, progress, passFailRatio, passRate,
                   progressChart, exceptCharts>>

CreateProgressChart ==
    /\ progressChart = <<>>
    /\ progressChart' = <<createProgressChart([passRate |-> passRate])>>
    /\ UNCHANGED <<audit, auditChart, progress, passFailRatio, passFailChart,
                   passRate, exceptCharts>>

NextCharts ==
    \/ CreateAuditRatioChart
    \/ GetPassFailRatio
    \/ CreatePassFailChart
    \/ CreateProgressChart

SpecCharts == InitCharts /\ [][NextCharts]_vars

----------------------------------------------------------------------------
(* SpecColor: darkenColor applied to a colour and a percent *)

MaxPercent == 100
ChannelSamples == {<<"0", "0">>, <<"0", "a">>, <<"3", "B">>, <<"8", "0">>,
                   <<"F", "F">>}
Colors == {<<"#">> \o r \o g \o b :
                r \in ChannelSamples, g \in ChannelSamples,
                b \in ChannelSamples}

InitColor ==
    /\ color \in Colors
    /\ percent \in 0..MaxPercent
    /\ darkened = <<>>
    /\ IdleAgg /\ IdleProfile /\ IdleApp /\ IdlePie /\ IdleTimeline
    /\ IdleCharts /\ IdleRerender
    /\ IdleQuery /\ IdleDistribution

DarkenColor ==
    /\ darkened = <<>>
    /\ darkened' = <<darkenColor(color, percent)>>
    /\ UNCHANGED <<color, percent, exceptColor>>

NextColor == DarkenColor

SpecColor == InitColor /\ [][NextColor]_vars

----------------------------------------------------------------------------
(* SpecRerender: renderProjectPieChart and calculateTimelinePath run again  *)
(* on the same arguments, the container holding what an earlier render left *)

MaxRenders == 2
MaxRerenderInput == 2
RerenderPaths == {ProjectA, ProjectB, UnknownPath}
RerenderAmounts == {400, 7000}

\* what an earlier render of other data can have left in the container
EarlierChildren ==
    {<<>>, <<Placeholder>>,
     <<renderProjectPieChart(TRUE, <<[key |-> ProjectB, value |-> 1000]>>)>>}

InitRerender ==
    /\ pieContainer \in BOOLEAN
    /\ pieInput \in Objects(RerenderPaths, RerenderAmounts, MaxRerenderInput)
    /\ scene = <<>>
    /\ xpData \in SeqsUpTo(TimelinePoints, MaxRerenderInput)
    /\ pathData = <<>>
    /\ pieBox \in (IF pieContainer THEN EarlierChildren ELSE {<<>>})
    /\ renders = 0
    /\ pathRuns = <<>>
    /\ IdleAgg /\ IdleProfile /\ IdleApp /\ IdleCharts /\ IdleColor
    /\ IdleQuery /\ IdleDistribution

RenderAgain ==
    /\ renders < MaxRenders
    /\ pieBox' = ContainerAfterRender(pieBox,
                        renderProjectPieChart(pieContainer, pieInput))
    /\ renders' = renders + 1
    /\ UNCHANGED <<pathRuns, pieVars, timelineVars, exceptRerender>>

CalculatePathAgain ==
    /\ Len(pathRuns) < MaxRenders
    /\ pathRuns' = Append(pathRuns, calculateTimelinePath(xpData))
    /\ UNCHANGED <<pieBox, renders, pieVars, timelineVars, exceptRerender>>

NextRerender == RenderAgain \/ CalculatePathAgain

SpecRerender == InitRerender /\ [][NextRerender]_vars

----------------------------------------------------------------------------
(* SpecQuery: GraphQLService.query with a stored token and a network answer *)

\* 'invalid jwt'
LowerCaseJwtMessage ==
    <<"i", "n", "v", "a", "l", "i", "d", " ", "j", "w", "t">>
\* 'authentication hook failed'
HookErrorMessage ==
    <<"a", "u", "t", "h", "e", "n", "t", "i", "c", "a", "t", "i", "o", "n",
      " ", "h", "o", "o", "k", " ", "f", "a", "i", "l", "e", "d">>

QueryTokens == {NoToken, EmptyToken, GoodToken, TwoPartToken, EmptyPartToken}
QueryNetworkResults ==
    NetworkResults
        \cup {ErrorsBody(LowerCaseJwtMessage), ErrorsBody(HookErrorMessage)}
        \cup {DataBody(UserList(<<UserRecord(Collections, <<>>, a, <<>>, <<>>)>>)) :
                a \in AuditLists}

InitQuery ==
    /\ qToken \in QueryTokens
    /\ qNet \in {<<n>> : n \in QueryNetworkResults}
    /\ qRun = <<>>
    /\ IdleAgg /\ IdleProfile /\ IdleApp /\ IdlePie /\ IdleTimeline
    /\ IdleCharts /\ IdleColor /\ IdleRerender /\ IdleDistribution

\* query() is called and runs to its first await or to its failure
QuerySend ==
    /\ qRun = <<>>
    /\ qRun' = <<querySend(qToken)>>
    /\ UNCHANGED <<qToken, qNet, exceptQuery>>

\* the fetch settles
QueryResponse ==
    /\ qRun # <<>> /\ qRun[1].pc = "fetch"
    /\ qRun' = <<queryResponse(qRun[1], qNet[1])>>
    /\ UNCHANGED <<qToken, qNet, exceptQuery>>

\* response.json() settles
QueryBody ==
    /\ qRun # <<>> /\ qRun[1].pc = "json"
    /\ qRun' = <<queryBody(qRun[1], qNet[1])>>
    /\ UNCHANGED <<qToken, qNet, exceptQuery>>

\* another callback runs Auth.logout() while the query waits: the token is
\* removed, the query goes on with the one it read
QueryLogout ==
    /\ qRun # <<>> /\ qRun[1].pc # "done"
    /\ qToken # NoToken
    /\ qToken' = NoToken
    /\ UNCHANGED <<qNet, qRun, exceptQuery>>

NextQuery == QuerySend \/ QueryResponse \/ QueryBody \/ QueryLogout

SpecQuery == InitQuery /\ [][NextQuery]_vars

----------------------------------------------------------------------------
(* SpecDistribution: createProjectDistribution applied to progress entries *)

MaxDistribution == 3
DistributionPaths ==
    {<<"/", "a", "/", "x">>, <<"/", "b">>, <<"x">>, <<"/">>, EmptyString,
     <<"/", "/", "b">>, <<"/", "Other">>,
     <<"/", "constructor", "/", "x">>, <<"/", "__proto__">>, <<"/", "2">>}
DistributionEntries == [path : DistributionPaths, succeeded : BOOLEAN]

InitDistribution ==
    /\ distInput \in SeqsUpTo(DistributionEntries, MaxDistribution)
    /\ distribution = <<>>
    /\ IdleAgg /\ IdleProfile /\ IdleApp /\ IdlePie /\ IdleTimeline
    /\ IdleCharts /\ IdleColor /\ IdleRerender /\ IdleQuery

CreateProjectDistribution ==
    /\ distribution = <<>>
    /\ distribution' = <<createProjectDistribution(distInput)>>
    /\ UNCHANGED <<distInput, exceptDistribution>>

NextDistribution == CreateProjectDistribution

SpecDistribution == InitDistribution /\ [][NextDistribution]_vars

----------------------------------------------------------------------------
(* Claims *)

\* C1: for every transaction list, the values of groupXPByPath(T) sum to
\* calculateTotalXP(T), absent and empty paths being counted under 'Unknown'.
C1_GroupedSumIsTotal ==
    (totalXP # <<>> /\ xpByPath # <<>>) =>
        /\ \A i \in 1..Len(xpByPath[1]) : xpByPath[1][i].text = <<>>
        /\ SumValues(xpByPath[1]) = totalXP[1]

\* the permutations of a list
PermutationsOf(s) ==
    {[i \in 1..Len(s) |-> s[f[i]]] :
        f \in {g \in [1..Len(s) -> 1..Len(s)] :
                  \A i, j \in 1..Len(s) : g[i] = g[j] => i = j}}

LevelAmounts(transactions) ==
    {transactions[i].amount :
        i \in {j \in 1..Len(transactions) : transactions[j].type = "level"}}

MaxLevel(transactions) ==
    IF LevelAmounts(transactions) = {} THEN 0
    ELSE CHOOSE m \in LevelAmounts(transactions) :
            \A a \in LevelAmounts(transactions) : a <= m

\* C2: getCurrentLevel is 0 without a level transaction, otherwise the
\* largest level amount, and the same for every permutation of the list.
C2_LevelIsMaxAnyOrder ==
    level # <<>> =>
        /\ level[1] = MaxLevel(txs)
        /\ \A p \in PermutationsOf(txs) : getCurrentLevel(p) = level[1]

\* C2 witness: the level was taken from a list whose larger level comes last.
C2_Witness ==
    /\ level # <<>>
    /\ Len(txs) = 2
    /\ txs[1].type = "level" /\ txs[2].type = "level"
    /\ txs[1].amount < txs[2].amount
    /\ level[1] = txs[2].amount

\* the user record of the response, when there is one
HasUserRecord(resp) == ~resp.isNull /\ resp.hasUser /\ resp.user # <<>>

\* C3: the level of a User built from a user record, and the level the
\* legacy processUserData returns, is the largest amount among the record's
\* level transactions (0 without one), whatever the order and the types.
C3_UserLevelIsMaxLevel ==
    /\ user # <<>> =>
            user[1].level = MaxLevel(response.user[1].transactions)
    /\ (legacy # <<>> /\ legacy[1].ok) =>
            legacy[1].value[1].level = MaxLevel(response.user[1].transactions)

\* the record with every collection there, the absent ones empty
WithEmptyCollections(resp) ==
    UserList(<<[resp.user[1] EXCEPT !.present = Collections]>>)

\* C4: with a user record whose transactions, audits, xps or
\* progressesByPath is absent, getUserProfile returns the metrics of the
\* record with that collection empty, and does not fail.
C4_AbsentCollectionIsEmpty ==
    (profile # <<>> /\ HasUserRecord(response)) =>
        /\ profile[1].ok
        /\ profile[1] = getUserProfile(WithEmptyCollections(response))

\* C5: a query result without a user record (no response, no user field,
\* an empty user list) makes getUserProfile fail with an error and no
\* metrics object, and init() does not call render for that load.
C5_NoUserNoRender ==
    \A i \in 1..Len(loads) :
        (/\ loads[i].pc = "done"
         /\ loads[i].net # <<>>
         /\ loads[i].net[1].kind = "data"
         /\ ~HasUserRecord(loads[i].net[1].data)) =>
            /\ ~loads[i].outcome[1].ok
            /\ loads[i].outcome[1].error # <<>>
            /\ loads[i].outcome[1].value = <<>>
            /\ ~loads[i].rendered

\* C5 witness: a load answered with an empty user list has ended, the error
\* panel is shown and the logout timer is pending.
C5_Witness ==
    /\ Len(loads) >= 1
    /\ loads[1].pc = "done"
    /\ loads[1].net = <<DataBody(UserList(<<>>))>>
    /\ view = "error"
    /\ timers = 1

\* the weights of the projects the filter selects, summed
RECURSIVE SelectedWeight(_)
SelectedWeight(obj) ==
    IF obj = <<>> THEN 0
    ELSE (IF SelectedPath(Head(obj).key)
          THEN RoundToThousands(Head(obj).value) ELSE 0)
            + SelectedWeight(Tail(obj))

SceneHasNaN(sc) ==
    \/ \E i \in 1..Len(sc.slices) :
        \/ \E k \in 1..4 : sc.slices[i].d[k].coordinates = "NaN"
        \/ IsNaN(sc.slices[i].percentage)
    \/ \E i \in 1..Len(sc.legend) : IsNaN(sc.legend[i].percent)

\* C6: whenever the weights of the selected projects sum to 0, the chart is
\* exactly the 'no data' placeholder: no slice path, no NaN coordinate.
C6_ZeroTotalIsPlaceholder ==
    (scene # <<>> /\ pieContainer /\ SelectedWeight(pieInput) = 0) =>
        /\ scene[1].kind = "placeholder"
        /\ scene[1].slices = <<>>
        /\ ~SceneHasNaN(scene[1])

DrawnChart == scene # <<>> /\ scene[1].kind = "chart" /\ scene[1].total > 0

RECURSIVE SumSpans(_)
SumSpans(slices) ==
    IF slices = <<>> THEN Num(0)
    ELSE Add(Sub(Head(slices).endAngle, Head(slices).startAngle),
             SumSpans(Tail(slices)))

\* C7: with weights summing to S > 0 the first slice starts at -90 degrees,
\* each next slice starts where the one before ended, each span is
\* (amount/S)*360 degrees, and the spans sum to 360 degrees, so that the
\* last slice ends a full turn after the first began.
C7_SlicesConsecutive ==
    DrawnChart =>
        LET sl == scene[1].slices
        IN /\ sl[1].startAngle = Num(-90)
           /\ \A i \in 1..(Len(sl) - 1) : sl[i + 1].startAngle = sl[i].endAngle
           /\ \A i \in 1..Len(sl) :
                Sub(sl[i].endAngle, sl[i].startAngle)
                    = Ratio(360 * sl[i].amount, scene[1].total)
           /\ SumSpans(sl) = Num(360)
           /\ sl[Len(sl)].endAngle = Num(270)

\* C7 witness: a chart of three slices of which the second is not empty.
C7_Witness ==
    /\ DrawnChart
    /\ Len(scene[1].slices) = 3
    /\ scene[1].slices[2].amount > 0
    /\ scene[1].slices[1].amount > scene[1].slices[2].amount

RECURSIVE SumPercent(_)
SumPercent(percents) ==
    IF percents = <<>> THEN 0
    ELSE Head(percents).num + SumPercent(Tail(percents))

SlicePercents == [i \in 1..Len(scene[1].slices) |-> scene[1].slices[i].percentage]
LegendPercents == [i \in 1..Len(scene[1].legend) |-> scene[1].legend[i].percent]

\* C8: with N selected projects whose weights sum to S > 0, the whole-number
\* percentages of the slices, and those of the legend, sum to within N-1
\* of 100.
C8_PercentagesNearHundred ==
    DrawnChart =>
        LET n == Len(scene[1].slices)
        IN /\ \A i \in 1..n : IsFinite(SlicePercents[i])
           /\ Abs(SumPercent(SlicePercents) - 100) <= n - 1
           /\ Abs(SumPercent(LegendPercents) - 100) <= n - 1

\* C8 witness: two slices whose percentages, 88 and 13, sum to 101.
C8_Witness ==
    /\ DrawnChart
    /\ Len(scene[1].slices) = 2
    /\ SumPercent(SlicePercents) = 101

\* C9: the slices are in descending order of amount and the legend entries
\* follow the slices one for one.
C9_SlicesDescending ==
    (scene # <<>> /\ scene[1].kind = "chart") =>
        LET sl == scene[1].slices
            lg == scene[1].legend
        IN /\ \A i \in 1..(Len(sl) - 1) : sl[i].amount >= sl[i + 1].amount
           /\ Len(lg) = Len(sl)
           /\ \A i \in 1..Len(sl) :
                /\ lg[i].project = sl[i].project
                /\ lg[i].amount = sl[i].amount
                /\ lg[i].fill = sl[i].fill

\* C9 witness: the object lists the smaller project first, the chart the
\* larger one.
C9_Witness ==
    /\ scene # <<>> /\ scene[1].kind = "chart"
    /\ Len(pieInput) = 2
    /\ pieInput[1] = [key |-> ProjectA, value |-> 1000]
    /\ pieInput[2] = [key |-> ProjectB, value |-> 7000]
    /\ scene[1].slices[1].project = <<"b">>
    /\ scene[1].legend[2].project = <<"a">>

\* C10: for a single point the path has its point at x = 0 and only finite
\* coordinates.
C10_SinglePointAtZero ==
    (pathData # <<>> /\ Len(xpData) = 1) =>
        /\ Len(pathData[1]) = 1
        /\ pathData[1][1].x = Num(0)
        /\ IsFinite(pathData[1][1].x)
        /\ IsFinite(pathData[1][1].y)

\* C11: when all the amounts of the input are equal (all 0 included) every
\* point of the path has the same finite y-coordinate.
C11_EqualAmountsEqualY ==
    (/\ pathData # <<>>
     /\ Len(xpData) >= 1
     /\ \A i \in 1..Len(xpData) : xpData[i].amount = xpData[1].amount) =>
        /\ Len(pathData[1]) = Len(xpData)
        /\ \A k \in 1..Len(pathData[1]) :
                /\ IsFinite(pathData[1][k].y)
                /\ pathData[1][k].y = pathData[1][1].y

\* C12: createAuditRatioChart emits two bars whose heights are numbers in
\* [0, 100]: (value / max) * 100 with y + height = 100 when the larger of
\* the two totals is positive, and 0 for both bars when it is 0.
C12_AuditBarsDefined ==
    auditChart # <<>> =>
        LET bars == auditChart[1]
            keys == <<audit.up, audit.down>>
            max == IF audit.up >= audit.down THEN audit.up ELSE audit.down
        IN /\ Len(bars) = 2
           /\ \A i \in 1..2 :
                /\ IsFinite(bars[i].height)
                /\ ~Greater(Num(0), bars[i].height)
                /\ ~Greater(bars[i].height, Num(100))
                /\ IF max > 0
                   THEN /\ bars[i].height = Ratio(keys[i] * 100, max)
                        /\ Add(bars[i].y, bars[i].height) = Num(100)
                   ELSE bars[i].height = Num(0)

\* the number of succeeded items of the progress list, counted by position
SucceededCount == Cardinality({i \in 1..Len(progress) : progress[i].succeeded})

\* succeeded-count / total-count, and 0 for the empty list
ExpectedRatio ==
    IF Len(progress) = 0 THEN Num(0)
    ELSE Ratio(SucceededCount, Len(progress))

\* C13: getPassFailRatio, and the ratio createPassFailChart draws, is
\* succeeded-count / total-count, lies in [0, 1] and is exactly 0 for an
\* empty progress list.
C13_PassFailRatioInUnitInterval ==
    /\ passFailRatio # <<>> =>
        /\ passFailRatio[1] = ExpectedRatio
        /\ IsFinite(passFailRatio[1])
        /\ ~Greater(Num(0), passFailRatio[1])
        /\ ~Greater(passFailRatio[1], Num(1))
        /\ (progress = <<>> => passFailRatio[1] = Num(0))
    /\ passFailChart # <<>> =>
        /\ passFailChart[1].rects[1].width =
                Mul(ExpectedRatio, Num(ConfigBarWidth))
        /\ passFailChart[1].text = Round(Mul(ExpectedRatio, Num(100)))

\* the ratio of an empty list and of a mixed list have been computed
C13_Witness ==
    /\ passFailRatio # <<>> /\ passFailChart # <<>>
    /\ \/ progress = <<>>
       \/ /\ Len(progress) = 3
          /\ SucceededCount = 2

\* the two rectangles of a bar of width w for ratio r, from its left edge
TwoRectangles(rects, left, w, r) ==
    /\ Len(rects) = 2
    /\ rects[1].x = Num(left)
    /\ rects[1].width = Mul(Num(w), r)
    /\ rects[2].x = Add(rects[1].x, rects[1].width)
    /\ rects[2].width = Mul(Num(w), Sub(Num(1), r))
    /\ Add(rects[1].width, rects[2].width) = Num(w)

\* C14: for every ratio r in [0, 1] the pass/fail bar is exactly two
\* rectangles: the first at the left edge with width w * r, the second
\* starting where the first ends with width w * (1 - r); the widths sum to w.
C14_TwoRectanglesAlways ==
    /\ passFailChart # <<>> =>
        TwoRectangles(passFailChart[1].rects, 10, ConfigBarWidth,
                      ExpectedRatio)
    /\ progressChart # <<>> =>
        TwoRectangles(progressChart[1], ProgressLeft, ProgressWidth, passRate)

\* both bars have been drawn for a degenerate ratio (0 or 1)
C14_Witness ==
    /\ passFailChart # <<>> /\ progressChart # <<>>
    /\ Len(progress) > 0
    /\ ExpectedRatio \in {Num(0), Num(1)}
    /\ passRate \in {Num(0), Num(1)}
    /\ \E i \in 1..2 : IsZero(passFailChart[1].rects[i].width)

\* the positions of the xp transactions of the list, and the position of
\* the k-th of them
XpPositions == {i \in 1..Len(txs) : txs[i].type = "xp"}
KthXpPosition(k) ==
    CHOOSE i \in XpPositions : Cardinality({j \in XpPositions : j <= i}) = k

\* C15: createTimeline returns one entry per xp transaction and none for
\* the other types, in the order of the transactions, each entry with the
\* amount and originEventId of its transaction.
C15_TimelineOnePerXp ==
    xpTimeline # <<>> =>
        /\ Len(xpTimeline[1]) = Cardinality(XpPositions)
        /\ \A k \in 1..Len(xpTimeline[1]) :
                /\ xpTimeline[1][k].amount = txs[KthXpPosition(k)].amount
                /\ xpTimeline[1][k].originEventId =
                        txs[KthXpPosition(k)].originEventId

\* a timeline made from a level transaction followed by an xp transaction
C15_Witness ==
    /\ xpTimeline # <<>>
    /\ Len(txs) = 2
    /\ txs[1].type = "level" /\ txs[2].type = "xp"
    /\ txs[1].amount # txs[2].amount
    /\ Len(xpTimeline[1]) = 1
    /\ xpTimeline[1][1].amount = txs[2].amount

\* C16: the xpTimeline that getUserProfile returns is in non-decreasing
\* date order, the transactions arriving in ascending createdAt order.
C16_TimelineAscending ==
    (profile # <<>> /\ profile[1].ok) =>
        LET timeline == profile[1].value[1].xpTimeline
        IN \A i, j \in 1..Len(timeline) :
                i < j => timeline[i].date <= timeline[j].date

\* the k-th channel (1 = R, 2 = G, 3 = B) of a 6-digit colour string
ChannelOf(str, k) == 16 * DigitValue(str[2 * k]) + DigitValue(str[2 * k + 1])

\* C17: darkenColor returns the 6-digit colour whose channels are each
\* max(0, channel - Math.round(2.55 * percent)); percent 0 gives the same
\* colour, and a larger percent never increases a channel.
C17_DarkenSubtractsAndClamps ==
    darkened # <<>> =>
        /\ Len(darkened[1]) = 7
        /\ darkened[1][1] = "#"
        /\ \A i \in 2..7 : \E v \in 1..16 : darkened[1][i] = LowerHex[v]
        /\ \A k \in 1..3 :
            LET before == ChannelOf(color, k)
                after == ChannelOf(darkened[1], k)
            IN /\ after = IF before - DarkenAmount(percent) < 0 THEN 0
                          ELSE before - DarkenAmount(percent)
               /\ percent = 0 => after = before
               /\ percent > 0 =>
                    after <= ChannelOf(darkenColor(color, percent - 1), k)
               /\ after <= before

\* a colour darkened so that one channel stops at 0 and another does not
C17_Witness ==
    /\ darkened # <<>>
    /\ percent = 20
    /\ color = <<"#", "3", "B", "0", "a", "F", "F">>
    /\ darkened[1] = <<"#", "0", "8", "0", "0", "c", "c">>

\* C18: no call of calculateTotalXP, groupXPByPath, createTimeline or
\* getCurrentLevel changes the transaction list it was given, and each
\* result is the one the method gives on that list whichever of the others
\* ran before it.
C18_AggregatorLeavesInput ==
    [][/\ txs' = txs
       /\ totalXP' # <<>> => totalXP'[1] = calculateTotalXP(txs)
       /\ xpByPath' # <<>> => xpByPath'[1] = groupXPByPath(txs)
       /\ xpTimeline' # <<>> => xpTimeline'[1] = createTimeline(txs)
       /\ level' # <<>> => level'[1] = getCurrentLevel(txs)]_vars

\* all four methods have run on a list whose level transactions are not in
\* descending order
C18_Witness ==
    /\ totalXP # <<>> /\ xpByPath # <<>> /\ xpTimeline # <<>> /\ level # <<>>
    /\ Len(txs) = 2
    /\ txs[1].type = "level" /\ txs[2].type = "level"
    /\ txs[1].amount < txs[2].amount
    /\ level[1] = txs[2].amount

LoggedOut == token = NoToken /\ view = "login"

\* the loads that fail in a step: done with an error after it, not before
FailsNow(i) ==
    /\ i \in 1..Len(loads')
    /\ loads'[i].pc = "done"
    /\ ~loads'[i].outcome[1].ok
    /\ (i > Len(loads) \/ loads[i].pc = "fetch")

AuthenticationError(message) ==
    Includes(message, AuthenticationWord) \/ Includes(message, JwtWord)

\* C20: a profile load that fails logs the session out: at once when the
\* error message contains 'authentication' or 'JWT', and otherwise the
\* error panel is shown, a timer is set, and when it fires the token is
\* removed and the login view shown.
C20_FailedLoadLogsOut ==
    /\ [][\A i \in 1..Len(loads') : FailsNow(i) =>
            IF AuthenticationError(loads'[i].outcome[1].error)
            THEN token' = NoToken /\ view' = "login"
            ELSE view' = "error" /\ timers' = timers + 1]_vars
    /\ (timers > 0) ~> LoggedOut

\* a load failed with another error, and its timer has fired
C20_Witness ==
    /\ LoggedOut
    /\ timers = 0
    /\ \E i \in 1..Len(loads) :
        /\ loads[i].pc = "done"
        /\ ~loads[i].outcome[1].ok
        /\ ~AuthenticationError(loads[i].outcome[1].error)

\* C21: query with no token stored sends no request, dispatches auth:logout
\* and fails with 'No authentication token found'; a response whose errors
\* mention 'JWT' has auth:logout dispatched before the query fails.
C21_QueryAuthErrors ==
    qRun # <<>> =>
        LET run == qRun[1]
        IN /\ (run.token = NoToken \/ run.token = EmptyToken) =>
                /\ run.pc = "done"
                /\ (\A k \in 1..Len(run.trace) : run.trace[k] # "fetch")
                /\ run.trace = <<"auth:logout">>
                /\ ~run.result[1].ok
                /\ run.result[1].error = NoTokenMessage
           /\ (/\ run.token # NoToken /\ run.token # EmptyToken
               /\ run.pc # "done") =>
                run.trace = <<"fetch">> /\ run.result = <<>>
           /\ (/\ run.token # NoToken /\ run.token # EmptyToken
               /\ run.pc = "done"
               /\ qNet[1].kind = "errors"
               /\ Includes(qNet[1].message, JwtWord)) =>
                /\ run.trace = <<"fetch", "auth:logout">>
                /\ ~run.result[1].ok
                /\ Includes(run.result[1].error, JwtWord)

\* a query has run with no token stored, ended at once
C21_Witness ==
    /\ qRun # <<>>
    /\ qToken = NoToken
    /\ qRun[1].token = NoToken
    /\ qRun[1].trace = <<"auth:logout">>
    /\ qRun[1].result = <<Thrown(NoTokenMessage)>>

\* a path that is '/bahrain/bh-module/' followed by one segment
UnderBahrainModule(path) ==
    /\ Len(path) = Len(BahrainModule) + 1
    /\ SubSeq(path, 1, Len(BahrainModule)) = BahrainModule
    /\ path[Len(path)] # "/"

\* the entries of the input whose path has that form
NamespaceEntries == {i \in 1..Len(pieInput) : UnderBahrainModule(pieInput[i].key)}

\* C22: a path is selected if and only if it is '/bahrain/bh-module/'
\* followed by exactly one non-empty segment, and the project name of a
\* selected path is that segment.
C22_FilterSelectsNamespace ==
    (scene # <<>> /\ pieContainer) =>
        IF NamespaceEntries = {} THEN scene[1].kind = "placeholder"
        ELSE /\ scene[1].kind = "chart"
             /\ Len(scene[1].slices) = Cardinality(NamespaceEntries)
             /\ \A i \in NamespaceEntries :
                    \E k \in 1..Len(scene[1].slices) :
                        scene[1].slices[k].project =
                            <<pieInput[i].key[Len(pieInput[i].key)]>>

\* the original amounts of the selected entries, summed
RECURSIVE SelectedOriginal(_)
SelectedOriginal(obj) ==
    IF obj = <<>> THEN 0
    ELSE (IF SelectedPath(Head(obj).key) THEN Head(obj).value ELSE 0)
            + SelectedOriginal(Tail(obj))

\* C23: each selected project carries its original amount / 1000, and the
\* total of the donut centre is the sum of the selected original amounts
\* / 1000.
C23_AmountsAreThousandths ==
    (scene # <<>> /\ scene[1].kind = "chart") =>
        /\ \A i \in 1..Len(pieInput) :
                SelectedPath(pieInput[i].key) =>
                    \E k \in 1..Len(scene[1].slices) :
                        /\ scene[1].slices[k].project =
                                Split(pieInput[i].key, BahrainModule)[2]
                        /\ Num(scene[1].slices[k].amount) =
                                Ratio(pieInput[i].value, 1000)
        /\ Num(scene[1].total) = Ratio(SelectedOriginal(pieInput), 1000)

\* the positions of the slashes of a path
SlashesOf(path) == {k \in 1..Len(path) : path[k] = "/"}

\* the second slash-delimited segment of a path, read by position: what lies
\* between the first slash and the next one (or the end); 'Other' without it
SecondSegment(path) ==
    IF SlashesOf(path) = {} THEN <<"Other">>
    ELSE LET first == CHOOSE k \in SlashesOf(path) :
                        \A j \in SlashesOf(path) : k <= j
             later == {k \in SlashesOf(path) : k > first}
             stop == IF later = {} THEN Len(path) + 1
                     ELSE CHOOSE k \in later : \A j \in later : k <= j
         IN IF stop = first + 1 THEN <<"Other">>
            ELSE SubSeq(path, first + 1, stop - 1)

EntriesOf(category) ==
    {i \in 1..Len(distInput) : SecondSegment(distInput[i].path) = category}

RECURSIVE SumTotals(_)
SumTotals(bars) ==
    IF bars = <<>> THEN 0 ELSE Head(bars).total + SumTotals(Tail(bars))

\* C24: createProjectDistribution groups every entry under the second
\* segment of its path ('Other' when absent or empty); every category has
\* total >= 1 and 0 <= completed <= total, a bar height completed / total
\* * 60 in [0, 60], and the totals sum to the number of entries.
C24_DistributionCountsEveryEntry ==
    distribution # <<>> =>
        LET bars == distribution[1]
        IN /\ \A i \in 1..Len(distInput) :
                \E k \in 1..Len(bars) :
                    bars[k].category = SecondSegment(distInput[i].path)
           /\ \A k, l \in 1..Len(bars) :
                bars[k].category = bars[l].category => k = l
           /\ \A k \in 1..Len(bars) :
                /\ bars[k].total = Cardinality(EntriesOf(bars[k].category))
                /\ bars[k].completed =
                        Cardinality({i \in EntriesOf(bars[k].category) :
                                        distInput[i].succeeded})
                /\ bars[k].total >= 1
                /\ 0 <= bars[k].completed
                /\ bars[k].completed <= bars[k].total
                /\ bars[k].height =
                        Ratio(bars[k].completed * 60, bars[k].total)
                /\ ~Greater(Num(0), bars[k].height)
                /\ ~Greater(bars[k].height, Num(60))
           /\ SumTotals(bars) = Len(distInput)


\* the legend rectangles k and m of the drawn scene share no point
LegendApart(k, m) ==
    LET a == scene[1].legend[k]
        b == scene[1].legend[m]
    IN \/ a.x + a.width <= b.x
       \/ b.x + b.width <= a.x
       \/ a.y + a.height <= b.y
       \/ b.y + b.height <= a.y

\* C25: counting from zero, legend entry i is in the left column (x = 50)
\* when i is even and in the right column (x = 510) when i is odd, in row
\* floor(i / 2) at y = 560 + row * 50, and no two legend rectangles overlap.
C25_LegendTwoColumns ==
    (scene # <<>> /\ scene[1].kind = "chart") =>
        LET lg == scene[1].legend
        IN /\ \A k \in 1..Len(lg) :
                /\ lg[k].x = (IF (k - 1) % 2 = 0 THEN 50 ELSE 510)
                /\ lg[k].y = 560 + ((k - 1) \div 2) * 50
           /\ \A k, m \in 1..Len(lg) : k # m => LegendApart(k, m)

\* C25 witness: a legend of three entries, two in the first row and the
\* third below the first.
C25_Witness ==
    /\ scene # <<>> /\ scene[1].kind = "chart"
    /\ Len(scene[1].legend) = 3
    /\ scene[1].legend[2].x > scene[1].legend[1].x
    /\ scene[1].legend[3].y > scene[1].legend[1].y

\* C26: for N selected projects the height of the viewBox and the height of
\* the container are both 560 + ceil(N / 2) * 50 + 30, and every legend
\* rectangle lies inside the viewBox, 1000 wide and that high.
C26_HeightHoldsLegend ==
    (scene # <<>> /\ scene[1].kind = "chart") =>
        LET n == Len(scene[1].slices)
            rows == IF n % 2 = 0 THEN n \div 2 ELSE n \div 2 + 1
            lg == scene[1].legend
        IN /\ scene[1].height = 560 + rows * 50 + 30
           /\ scene[1].containerHeight = 560 + rows * 50 + 30
           /\ \A k \in 1..Len(lg) :
                /\ lg[k].x >= 0 /\ lg[k].x + lg[k].width <= 1000
                /\ lg[k].y >= 0
                /\ lg[k].y + lg[k].height <= scene[1].height

\* C26 witness: an odd number of projects, whose last legend entry has a
\* row of its own.
C26_Witness ==
    /\ scene # <<>> /\ scene[1].kind = "chart"
    /\ Len(scene[1].legend) = 3
    /\ scene[1].height = 690

\* the number of entries of the object that the filter selects
RECURSIVE SelectedCount(_)
SelectedCount(obj) ==
    IF obj = <<>> THEN 0
    ELSE (IF SelectedPath(Head(obj).key) THEN 1 ELSE 0)
            + SelectedCount(Tail(obj))

\* C27: every selected project has a slice; the slice carries a percentage
\* label exactly when its share of the total is above 3 in a hundred, and
\* the label stands at the angular midpoint of the slice at the radius
\* midway between the inner and the outer one.
C27_LabelAboveThreshold ==
    (scene # <<>> /\ scene[1].kind = "chart") =>
        LET sl == scene[1].slices
        IN /\ Len(sl) = SelectedCount(pieInput)
           /\ \A i \in 1..Len(pieInput) :
                SelectedPath(pieInput[i].key) =>
                    \E k \in 1..Len(sl) :
                        sl[k].project = Split(pieInput[i].key, BahrainModule)[2]
           /\ scene[1].total > 0 =>
                \A k \in 1..Len(sl) :
                    /\ (sl[k].label # <<>>)
                            <=> (100 * sl[k].amount > 3 * scene[1].total)
                    /\ sl[k].label # <<>> =>
                            sl[k].label[1].at =
                                ArcPoint((InnerRadius + Radius) \div 2,
                                         Div(Add(sl[k].startAngle,
                                                 sl[k].endAngle), Num(2)))

\* C27 witness: a slice of exactly 3 in a hundred drawn without a label next
\* to a labelled one.
C27_Witness ==
    /\ DrawnChart
    /\ Len(scene[1].slices) = 2
    /\ scene[1].slices[1].label # <<>>
    /\ scene[1].slices[2].label = <<>>
    /\ scene[1].slices[2].d # <<>>
    /\ 100 * scene[1].slices[2].amount = 3 * scene[1].total


\* the step has ProfileView.render draw the profile of some load
RenderStep ==
    \E i \in 1..Len(loads') :
        /\ loads'[i].rendered
        /\ i <= Len(loads) => ~loads[i].rendered

\* C28: once Auth.logout has removed the token, ProfileView.render is not
\* invoked until a later login has stored a token: no step renders a
\* profile while no token is stored.
C28_NoRenderAfterLogout == [][RenderStep => token # NoToken]_vars

\* the step is the sign-in endpoint's answer reply, handled by handleLogin
LoginStep(reply) ==
    /\ logins' = logins - 1
    /\ token' = handleLogin(Current, reply).token
    /\ loads' = handleLogin(Current, reply).loads

\* C29: whenever Auth.login resolves, the token it stored satisfies
\* isAuthenticated (three parts, none empty, of JWT characters only), and
\* whenever it fails the stored token is unchanged.
C29_LoginStoresValidToken ==
    [][\A reply \in LoginResults :
        LoginStep(reply) =>
            IF loginStores(reply) THEN isAuthenticated(token')
            ELSE token' = token]_vars

\* C30: the logout timer set by handleError for a failure never ends a
\* session that a login established after that failure: a timer set before
\* the latest storing login does not fire while that login's token is
\* stored.
C30_TimerSparesLaterSession ==
    [][(timers' = timers - 1 /\ stale > 0) => ~isAuthenticated(token)]_vars
====
